---- MODULE Spec2Model ----
(***************************************************************************)
(* Recipe scoring and filtering engine of backend/routers/chat.py:         *)
(* infer_nutrition_goal, _get_macro, compute_nutrition_score,              *)
(* compute_expiring_score and score_recipes.                               *)
(*                                                                         *)
(* Conventions                                                             *)
(*  - A Python str that the code converts or searches (lower(), `in`) is a *)
(*    sequence of one-character strings; lower() and substring search are  *)
(*    computed character by character.  A str that the code only compares  *)
(*    for equality or uses as a dict key (goal names, macro names) is a    *)
(*    TLA+ string.                                                         *)
(*  - Optional[T] is a sequence of length at most one: <<>> is None and    *)
(*    <<v>> is the value v.                                                *)
(*  - A Python float or int that enters arithmetic is an exact rational    *)
(*    <<n, d>> with d > 0.                                                 *)
(***************************************************************************)
EXTENDS Integers, Sequences, FiniteSets, TLC

VARIABLES
    recipes,        \* the recipes passed to the call (the Recipe rows)
    pantry_items,   \* the pantry passed to the call (the Item rows)
    constraints,    \* the UserConstraints of the call
    predictor,      \* what predict_both does when the call reaches it
    pc,             \* "ready" before the call, then the name of the function
                    \* that has returned
    ret             \* the value the call returned

vars == <<recipes, pantry_items, constraints, predictor, pc, ret>>

----------------------------------------------------------------------------
(* Optional values *)

None == <<>>

Some(v) == <<v>>

IsNone(o) == Len(o) = 0

IsSet(o) == Len(o) = 1

Val(o) == o[1]

Opt(S) == {None} \cup {Some(v) : v \in S}

----------------------------------------------------------------------------
(* Exact rationals for Python numbers *)

RECURSIVE GCD(_, _)
GCD(a, b) == IF b = 0 THEN a ELSE GCD(b, a % b)

Abs(n) == IF n < 0 THEN -n ELSE n

\* n/d in lowest terms
R(n, d) == LET g == GCD(Abs(n), d) IN <<n \div g, d \div g>>

RInt(n) == <<n, 1>>

RLe(a, b) == a[1] * b[2] <= b[1] * a[2]

RLt(a, b) == a[1] * b[2] < b[1] * a[2]

REq(a, b) == a[1] * b[2] = b[1] * a[2]

RAdd(a, b) == R(a[1] * b[2] + b[1] * a[2], a[2] * b[2])

RMul(a, b) == R(a[1] * b[1], a[2] * b[2])

RDivInt(a, n) == R(a[1], a[2] * n)

RMin(a, b) == IF RLe(a, b) THEN a ELSE b

RMax(a, b) == IF RLe(a, b) THEN b ELSE a

RECURSIVE RSum(_)
RSum(s) == IF s = <<>> THEN RInt(0) ELSE RAdd(Head(s), RSum(Tail(s)))

\* int(x): truncation toward zero
PyInt(a) == IF a[1] >= 0 THEN a[1] \div a[2] ELSE -((-a[1]) \div a[2])

----------------------------------------------------------------------------
(* Strings as character sequences: str.lower() and the `in` operator *)

UpperChars ==
    <<"A", "B", "C", "D", "E", "F", "G", "H", "I", "J", "K", "L", "M",
      "N", "O", "P", "Q", "R", "S", "T", "U", "V", "W", "X", "Y", "Z">>

LowerChars ==
    <<"a", "b", "c", "d", "e", "f", "g", "h", "i", "j", "k", "l", "m",
      "n", "o", "p", "q", "r", "s", "t", "u", "v", "w", "x", "y", "z">>

OtherChars == <<" ", "-", "0", "1", "2", "3", "4", "5", "6", "7", "8", "9">>

Range(s) == {s[i] : i \in DOMAIN s}

Chars == Range(OtherChars) \cup Range(UpperChars) \cup Range(LowerChars)

\* the lower-case form of each character
LowerChar ==
    [c \in Chars |->
        IF \E i \in DOMAIN UpperChars : UpperChars[i] = c
        THEN LowerChars[CHOOSE i \in DOMAIN UpperChars : UpperChars[i] = c]
        ELSE c]

\* s.lower()
Lower(s) == [i \in DOMAIN s |-> LowerChar[s[i]]]

\* a in b  (a is a contiguous substring of b)
StrIn(a, b) ==
    \E i \in 0..(Len(b) - Len(a)) : SubSeq(b, i + 1, i + Len(a)) = a

\* sep.join(parts)
RECURSIVE Join(_, _)
Join(sep, parts) ==
    IF parts = <<>> THEN ""
    ELSE IF Len(parts) = 1 THEN parts[1]
    ELSE parts[1] \o sep \o Join(sep, Tail(parts))

\* [f(x) for x in s]
LowerAll(s) == [i \in DOMAIN s |-> Lower(s[i])]

\* {x.lower() for x in s}
LowerSet(s) == {Lower(s[i]) : i \in DOMAIN s}

----------------------------------------------------------------------------
(* Python truthiness of the optional fields the code tests with `if x` *)

\* Optional[int]: None and 0 are falsy
TruthyInt(o) == IsSet(o) /\ Val(o) # 0

\* Optional[list] and Optional[str as characters]: None and empty are falsy
TruthySeq(o) == IsSet(o) /\ Len(Val(o)) > 0

\* Optional[str] kept as a TLA+ string: None and "" are falsy
TruthyStr(o) == IsSet(o) /\ Val(o) # ""

----------------------------------------------------------------------------
(* Hard filters of score_recipes *)

meat_keywords ==
    << <<"c", "h", "i", "c", "k", "e", "n">>,
       <<"b", "e", "e", "f">>,
       <<"p", "o", "r", "k">>,
       <<"l", "a", "m", "b">>,
       <<"t", "u", "r", "k", "e", "y">>,
       <<"b", "a", "c", "o", "n">>,
       <<"s", "a", "u", "s", "a", "g", "e">>,
       <<"m", "e", "a", "t">> >>

fish_keywords ==
    << <<"f", "i", "s", "h">>,
       <<"s", "a", "l", "m", "o", "n">>,
       <<"t", "u", "n", "a">>,
       <<"s", "h", "r", "i", "m", "p">>,
       <<"s", "e", "a", "f", "o", "o", "d">>,
       <<"c", "o", "d">>,
       <<"t", "i", "l", "a", "p", "i", "a">> >>

dairy_keywords ==
    << <<"m", "i", "l", "k">>,
       <<"c", "h", "e", "e", "s", "e">>,
       <<"b", "u", "t", "t", "e", "r">>,
       <<"c", "r", "e", "a", "m">>,
       <<"y", "o", "g", "u", "r", "t">> >>

vegan == <<"v", "e", "g", "a", "n">>

vegetarian == <<"v", "e", "g", "e", "t", "a", "r", "i", "a", "n">>

pescatarian == <<"p", "e", "s", "c", "a", "t", "a", "r", "i", "a", "n">>

\* IngNames with a placeholder name for a recipe without ingredients
IngNames_Placeholder(recipe) ==
    IF TruthySeq(recipe.ingredients)
    THEN LowerAll(Val(recipe.ingredients))
    ELSE << <<>> >>

\* [ri.name.lower() for ri in recipe.ingredients] if recipe.ingredients else []
IngNames(recipe) ==
    IF TruthySeq(recipe.ingredients)
    THEN LowerAll(Val(recipe.ingredients))
    ELSE <<>>

\* not ing_names: the recipe is skipped
HasIngredients(recipe) == IngNames(recipe) # <<>>

\* the recipe is kept by the time filter
PassesTimeFilter(recipe, c) ==
    ~ (/\ TruthyInt(c.max_time_minutes)
       /\ TruthyInt(recipe.time_minutes)
       /\ Val(recipe.time_minutes) > Val(c.max_time_minutes))

\* any(any(kw in ing for kw in keywords) for ing in ing_names)
HasKeyword(keywords, ings) ==
    \E i \in DOMAIN ings : \E k \in DOMAIN keywords : StrIn(keywords[k], ings[i])

\* InferredDiet falling back to 'omnivore' when meat is present
InferredDiet_Omnivore(ings) ==
    LET has_meat == HasKeyword(meat_keywords, ings)
        has_fish == HasKeyword(fish_keywords, ings)
        has_dairy == HasKeyword(dairy_keywords, ings)
    IN  IF ~has_meat /\ ~has_fish /\ ~has_dairy THEN Some(vegan)
        ELSE IF ~has_meat /\ ~has_fish THEN Some(vegetarian)
        ELSE IF ~has_meat /\ has_fish THEN Some(pescatarian)
        ELSE Some(<<"o", "m", "n", "i", "v", "o", "r", "e">>)

\* inferred_diet: None, 'vegan', 'vegetarian' or 'pescatarian'
InferredDiet(ings) ==
    LET has_meat == HasKeyword(meat_keywords, ings)
        has_fish == HasKeyword(fish_keywords, ings)
        has_dairy == HasKeyword(dairy_keywords, ings)
    IN  IF ~has_meat /\ ~has_fish /\ ~has_dairy THEN Some(vegan)
        ELSE IF ~has_meat /\ ~has_fish THEN Some(vegetarian)
        ELSE IF ~has_meat /\ has_fish THEN Some(pescatarian)
        ELSE None

\* the recipe is kept by the diet filter
PassesDietFilter(recipe, c) ==
    IF ~TruthySeq(c.diet_types) THEN TRUE
    ELSE LET allowed_diets == LowerSet(Val(c.diet_types))
             inferred_diet == InferredDiet(IngNames(recipe))
         IN  IF TruthySeq(recipe.diet) /\ Lower(Val(recipe.diet)) \in allowed_diets
             THEN TRUE
             ELSE TruthySeq(inferred_diet) /\ Val(inferred_diet) \in allowed_diets

\* PassesIncludeFilter asking for any required entry instead of all
PassesIncludeFilter_Any(recipe, c) ==
    IF ~TruthySeq(c.include_ingredients) THEN TRUE
    ELSE LET include_set == LowerSet(Val(c.include_ingredients))
             ings == IngNames(recipe)
         IN  \E required \in include_set :
                 \E i \in DOMAIN ings :
                     StrIn(required, ings[i]) \/ StrIn(ings[i], required)

\* the recipe is kept by the include filter
PassesIncludeFilter(recipe, c) ==
    IF ~TruthySeq(c.include_ingredients) THEN TRUE
    ELSE LET include_set == LowerSet(Val(c.include_ingredients))
             ings == IngNames(recipe)
         IN  \A required \in include_set :
                 \E i \in DOMAIN ings :
                     StrIn(required, ings[i]) \/ StrIn(ings[i], required)

\* PassesExcludeFilter searching the term in the ingredient only
PassesExcludeFilter_OneWay(recipe, c) ==
    IF ~TruthySeq(c.exclude_ingredients) THEN TRUE
    ELSE LET exclude_set == LowerSet(Val(c.exclude_ingredients))
             ings == IngNames(recipe)
         IN  ~ \E i \in DOMAIN ings :
                   \E exc \in exclude_set : StrIn(exc, ings[i])

\* the recipe is kept by the exclude filter
PassesExcludeFilter(recipe, c) ==
    IF ~TruthySeq(c.exclude_ingredients) THEN TRUE
    ELSE LET exclude_set == LowerSet(Val(c.exclude_ingredients))
             ings == IngNames(recipe)
         IN  ~ \E i \in DOMAIN ings :
                   \E exc \in exclude_set :
                       StrIn(exc, ings[i]) \/ StrIn(ings[i], exc)

\* PassesHardFilters without the exclude stage
PassesHardFilters_NoExclude(recipe, c) ==
    /\ HasIngredients(recipe)
    /\ PassesTimeFilter(recipe, c)
    /\ PassesDietFilter(recipe, c)
    /\ PassesIncludeFilter(recipe, c)

\* the recipe reaches the soft scoring stage (no `continue` was taken)
PassesHardFilters(recipe, c) ==
    /\ HasIngredients(recipe)
    /\ PassesTimeFilter(recipe, c)
    /\ PassesDietFilter(recipe, c)
    /\ PassesIncludeFilter(recipe, c)
    /\ PassesExcludeFilter(recipe, c)

----------------------------------------------------------------------------
(* compute_expiring_score *)

\* Upper ends of the "urgent" and "soon" windows, in days from today
UrgentDays == 7

SoonDays == 14

\* ExpiryWeight giving an item without date the urgent weight
ExpiryWeight_NoDateUrgent(item) ==
    LET exp_date == item.expiration_date
    IN  IF exp_date.kind = "none" THEN Some(R(1, 1))
        ELSE IF exp_date.kind = "bad" THEN None
        ELSE LET delta == exp_date.days
             IN  IF 0 <= delta /\ delta <= UrgentDays THEN Some(R(1, 1))
                 ELSE IF UrgentDays < delta /\ delta <= SoonDays THEN Some(R(1, 2))
                 ELSE None

\* ExpiryWeight with the windows shifted: day 7 already counts as "soon" and
\* an item expired yesterday still as "urgent"
ExpiryWeight_ShiftedWindows(item) ==
    LET exp_date == item.expiration_date
    IN  IF exp_date.kind = "none" THEN None
        ELSE IF exp_date.kind = "bad" THEN None
        ELSE LET delta == exp_date.days
             IN  IF -1 <= delta /\ delta < UrgentDays THEN Some(R(1, 1))
                 ELSE IF UrgentDays <= delta /\ delta <= SoonDays THEN Some(R(1, 2))
                 ELSE None

\* An expiration_date is [kind, days]:
\*   "none"  None
\*   "date"  a date object, `days` days after today
\*   "iso"   a str that datetime.fromisoformat parses, `days` days after today
\*   "bad"   a non-empty str that datetime.fromisoformat rejects (ValueError,
\*           swallowed by the except clause)
\* The weight given to a pantry item: None when the item is left out of
\* pantry_map, else 1.0 or 0.5.
ExpiryWeight(item) ==
    LET exp_date == item.expiration_date
    IN  IF exp_date.kind = "none" THEN None
        ELSE IF exp_date.kind = "bad" THEN None
        ELSE LET delta == exp_date.days
             IN  IF 0 <= delta /\ delta <= UrgentDays THEN Some(R(1, 1))
                 ELSE IF UrgentDays < delta /\ delta <= SoonDays THEN Some(R(1, 2))
                 ELSE None

\* pantry_map[k] = v on an insertion-ordered dict held as a sequence of
\* <<key, value>>: an existing key keeps its position and takes the new value
DictPut(d, k, v) ==
    IF \E i \in DOMAIN d : d[i][1] = k
    THEN [i \in DOMAIN d |-> IF d[i][1] = k THEN <<k, v>> ELSE d[i]]
    ELSE Append(d, <<k, v>>)

\* pantry_map after the loop over the first n pantry items
RECURSIVE PantryMapUpTo(_, _)
PantryMapUpTo(items, n) ==
    IF n = 0 THEN <<>>
    ELSE LET prev == PantryMapUpTo(items, n - 1)
             w == ExpiryWeight(items[n])
         IN  IF IsNone(w) THEN prev
             ELSE DictPut(prev, Lower(items[n].name), Val(w))

PantryMap(items) == PantryMapUpTo(items, Len(items))

\* pantry_name in ing or ing in pantry_name
ExpiryMatch(pantry_name, ing) == StrIn(pantry_name, ing) \/ StrIn(ing, pantry_name)

\* index of the first entry of pantry_map matching ing, 0 when there is none
FirstMatch(pantry_map, ing) ==
    IF \E i \in DOMAIN pantry_map : ExpiryMatch(pantry_map[i][1], ing)
    THEN CHOOSE i \in DOMAIN pantry_map :
             /\ ExpiryMatch(pantry_map[i][1], ing)
             /\ \A j \in 1..(i - 1) : ~ExpiryMatch(pantry_map[j][1], ing)
    ELSE 0

\* <<total_weight, matched_expiring>> after the loop over the first n ingredients
RECURSIVE ExpiryAccum(_, _, _)
ExpiryAccum(ings, pantry_map, n) ==
    IF n = 0 THEN [total_weight |-> RInt(0), matched_expiring |-> <<>>]
    ELSE LET prev == ExpiryAccum(ings, pantry_map, n - 1)
             m == FirstMatch(pantry_map, ings[n])
         IN  IF m = 0 THEN prev
             ELSE [total_weight |-> RAdd(prev.total_weight, pantry_map[m][2]),
                   matched_expiring |-> Append(prev.matched_expiring, pantry_map[m][1])]

\* min(1.0, expiring_score)
CapExpiring(expiring_score) == RMin(RInt(1), expiring_score)

\* compute_expiring_score(recipe, pantry_items) -> (score, matched)
compute_expiring_score(recipe, items) ==
    LET ing_names == IngNames(recipe)
    IN  IF ing_names = <<>> THEN [score |-> RInt(0), matched |-> <<>>]
        ELSE LET acc == ExpiryAccum(ing_names, PantryMap(items), Len(ing_names))
                 expiring_score == RDivInt(acc.total_weight, Len(ing_names))
             IN  [score |-> CapExpiring(expiring_score),
                  matched |-> acc.matched_expiring]

----------------------------------------------------------------------------
(* infer_nutrition_goal, _get_macro, compute_nutrition_score *)

\* NUTRITION_THRESHOLDS: goal -> dict of macro -> target, as <<macro, target>>
ThresholdGoals == {"high_protein", "low_carb", "low_calorie"}

NUTRITION_THRESHOLDS ==
    [g \in ThresholdGoals |->
        CASE g = "high_protein" -> << <<"protein_g", 30>> >>
          [] g = "low_carb" -> << <<"carbs_g", 35>> >>
          [] g = "low_calorie" -> << <<"calories", 550>> >>]

high == <<"h", "i", "g", "h">>

low == <<"l", "o", "w">>

\* (constraints.energy_level or "").lower()
EnergyOf(c) == IF TruthySeq(c.energy_level) THEN Lower(Val(c.energy_level)) ELSE <<>>

\* infer_nutrition_goal looking at prioritize_macro before nutrition_goal
infer_nutrition_goal_HintFirst(c) ==
    IF IsSet(c.prioritize_macro) /\ Val(c.prioritize_macro) \in ThresholdGoals
    THEN c.prioritize_macro
    ELSE IF TruthyStr(c.nutrition_goal) THEN c.nutrition_goal
    ELSE IF EnergyOf(c) = high THEN Some("high_protein")
    ELSE IF EnergyOf(c) = low THEN Some("low_calorie")
    ELSE None

\* infer_nutrition_goal(constraints) -> Optional[str]
infer_nutrition_goal(c) ==
    IF TruthyStr(c.nutrition_goal) THEN c.nutrition_goal
    ELSE IF IsSet(c.prioritize_macro) /\ Val(c.prioritize_macro) \in ThresholdGoals
         THEN c.prioritize_macro
    ELSE IF EnergyOf(c) = high THEN Some("high_protein")
    ELSE IF EnergyOf(c) = low THEN Some("low_calorie")
    ELSE None

\* _get_macro without the nutrition_* fallback
get_macro_BaseOnly(recipe, key) == recipe[key]

\* _get_macro(recipe, key): the base field, else the nutrition_* field
get_macro(recipe, key) ==
    IF IsSet(recipe[key]) THEN recipe[key] ELSE recipe["nutrition_" \o key]

\* direction = "high" if goal == "high_protein" else "low"
Direction(goal) == IF goal = "high_protein" THEN "high" ELSE "low"

\* MacroComponent with strict comparisons at the four thresholds
MacroComponent_Strict(direction, macro_key, value, target) ==
    IF direction = "high"
    THEN IF RLt(RMul(RInt(target), R(13, 10)), value)
         THEN [comp |-> R(1, 1),
               reason |-> macro_key \o " " \o ToString(PyInt(value))
                          \o "g is well above " \o ToString(target) \o "g goal"]
         ELSE IF RLt(RInt(target), value)
         THEN [comp |-> R(6, 10),
               reason |-> macro_key \o " " \o ToString(PyInt(value))
                          \o "g meets " \o ToString(target) \o "g goal"]
         ELSE [comp |-> R(-5, 10),
               reason |-> macro_key \o " " \o ToString(PyInt(value))
                          \o "g is below " \o ToString(target) \o "g goal"]
    ELSE IF RLt(value, RMul(RInt(target), R(7, 10)))
         THEN [comp |-> R(1, 1),
               reason |-> macro_key \o " " \o ToString(PyInt(value))
                          \o " is well under " \o ToString(target) \o " limit"]
         ELSE IF RLt(value, RInt(target))
         THEN [comp |-> R(4, 10),
               reason |-> macro_key \o " " \o ToString(PyInt(value))
                          \o " is under " \o ToString(target) \o " limit"]
         ELSE [comp |-> R(-6, 10),
               reason |-> macro_key \o " " \o ToString(PyInt(value))
                          \o " exceeds " \o ToString(target) \o " limit"]

\* the branch taken for one present macro: its component score and reason.
\* target * 1.3 and target * 0.7 are exact in binary floating point for the
\* three targets of the table (39.0, 24.5, 385.0), so the products are taken
\* over the rationals.
MacroComponent(direction, macro_key, value, target) ==
    IF direction = "high"
    THEN IF RLe(RMul(RInt(target), R(13, 10)), value)
         THEN [comp |-> R(1, 1),
               reason |-> macro_key \o " " \o ToString(PyInt(value))
                          \o "g is well above " \o ToString(target) \o "g goal"]
         ELSE IF RLe(RInt(target), value)
         THEN [comp |-> R(6, 10),
               reason |-> macro_key \o " " \o ToString(PyInt(value))
                          \o "g meets " \o ToString(target) \o "g goal"]
         ELSE [comp |-> R(-5, 10),
               reason |-> macro_key \o " " \o ToString(PyInt(value))
                          \o "g is below " \o ToString(target) \o "g goal"]
    ELSE IF RLe(value, RMul(RInt(target), R(7, 10)))
         THEN [comp |-> R(1, 1),
               reason |-> macro_key \o " " \o ToString(PyInt(value))
                          \o " is well under " \o ToString(target) \o " limit"]
         ELSE IF RLe(value, RInt(target))
         THEN [comp |-> R(4, 10),
               reason |-> macro_key \o " " \o ToString(PyInt(value))
                          \o " is under " \o ToString(target) \o " limit"]
         ELSE [comp |-> R(-6, 10),
               reason |-> macro_key \o " " \o ToString(PyInt(value))
                          \o " exceeds " \o ToString(target) \o " limit"]

\* d[key] = value on a dict with string keys held as a record: the key is
\* added when absent
DictSet(d, key, value) == (key :> value) @@ d

\* InitialNutritionDebug with a "score" key from the start
InitialNutritionDebug_Score(goal) ==
    [goal |-> goal,
     thresholds |-> IF TruthyStr(goal) /\ Val(goal) \in ThresholdGoals
                    THEN Some(NUTRITION_THRESHOLDS[Val(goal)]) ELSE None,
     macros |-> <<>>,
     components |-> <<>>,
     missing_macros |-> <<>>,
     score |-> RInt(0)]

\* the debug dict as first built: goal, thresholds and three empty containers
InitialNutritionDebug(goal) ==
    [goal |-> goal,
     thresholds |-> IF TruthyStr(goal) /\ Val(goal) \in ThresholdGoals
                    THEN Some(NUTRITION_THRESHOLDS[Val(goal)]) ELSE None,
     macros |-> <<>>,
     components |-> <<>>,
     missing_macros |-> <<>>]

\* the loop `for macro_key, target in thresholds.items()` over the first n
\* entries: debug, component_scores and reasons
RECURSIVE NutritionLoop(_, _, _, _)
NutritionLoop(recipe, goal, thresholds, n) ==
    IF n = 0
    THEN [debug |-> InitialNutritionDebug(Some(goal)),
          component_scores |-> <<>>, reasons |-> <<>>]
    ELSE LET prev == NutritionLoop(recipe, goal, thresholds, n - 1)
             macro_key == thresholds[n][1]
             target == thresholds[n][2]
             value == get_macro(recipe, macro_key)
             d1 == [prev.debug EXCEPT !.macros = Append(@, <<macro_key, value>>)]
         IN  IF IsNone(value)
             THEN [prev EXCEPT !.debug =
                       [d1 EXCEPT !.missing_macros = Append(@, macro_key)]]
             ELSE LET mc == MacroComponent(Direction(goal), macro_key, Val(value), target)
                  IN  [debug |-> [d1 EXCEPT !.components =
                                      Append(@, <<macro_key, mc.comp>>)],
                       component_scores |-> Append(prev.component_scores, mc.comp),
                       reasons |-> Append(prev.reasons, mc.reason)]

\* max(-1.0, min(1.0, x))
Clamp(x) == RMax(RInt(-1), RMin(RInt(1), x))

\* compute_nutrition_score(recipe, constraints) -> (score, explanation, debug)
compute_nutrition_score(recipe, c) ==
    LET goal == infer_nutrition_goal(c)
    IN  IF ~TruthyStr(goal) \/ Val(goal) \notin ThresholdGoals
        THEN [score |-> RInt(0),
              explanation |-> "No nutrition goal specified",
              debug |-> InitialNutritionDebug(goal)]
        ELSE LET thresholds == NUTRITION_THRESHOLDS[Val(goal)]
                 loop == NutritionLoop(recipe, Val(goal), thresholds, Len(thresholds))
             IN  IF loop.component_scores = <<>>
                 THEN [score |-> RInt(0),
                       explanation |-> "No nutrition data on recipe",
                       debug |-> loop.debug]
                 ELSE LET avg_score == RDivInt(RSum(loop.component_scores),
                                               Len(loop.component_scores))
                          final_score == Clamp(avg_score)
                      IN  [score |-> final_score,
                           explanation |-> IF loop.reasons # <<>>
                                           THEN Join("; ", loop.reasons)
                                           ELSE "Nutrition goal considered",
                           debug |-> DictSet(loop.debug, "score", final_score)]

----------------------------------------------------------------------------
(* compute_mood_energy_score *)

ComfortMoodsML ==
    {<<"c", "o", "m", "f", "o", "r", "t">>,
     <<"c", "o", "z", "y">>,
     <<"h", "e", "a", "r", "t", "y">>,
     <<"h", "a", "p", "p", "y">>,
     <<"g", "o", "o", "d">>}

LightMoods ==
    {<<"l", "i", "g", "h", "t">>,
     <<"f", "r", "e", "s", "h">>,
     <<"h", "e", "a", "l", "t", "h", "y">>}

ComfortMoods ==
    {<<"c", "o", "m", "f", "o", "r", "t">>,
     <<"c", "o", "z", "y">>,
     <<"h", "e", "a", "r", "t", "y">>}

FocusMoods ==
    {<<"f", "o", "c", "u", "s">>,
     <<"p", "o", "s", "t", "-", "w", "o", "r", "k", "o", "u", "t">>,
     <<"g", "y", "m">>,
     <<"m", "u", "s", "c", "l", "e">>}

happy == <<"h", "a", "p", "p", "y">>

sad == <<"s", "a", "d">>

neutral == <<"n", "e", "u", "t", "r", "a", "l">>

normal == <<"n", "o", "r", "m", "a", "l">>

burst == <<"b", "u", "r", "s", "t">>

energy_word == <<"e", "n", "e", "r", "g", "y">>

\* the text of a character sequence, for f-strings
RECURSIVE StrOf(_)
StrOf(s) == IF s = <<>> THEN "" ELSE Head(s) \o StrOf(Tail(s))

\* f"{x:.0%}" for 0 <= x: the percentage rounded half to even
Percent0(x) ==
    LET n == x[1] * 100
        q == n \div x[2]
        r2 == 2 * (n % x[2])
        up == r2 > x[2] \/ (r2 = x[2] /\ q % 2 = 1)
    IN  ToString(IF up THEN q + 1 ELSE q) \o "%"

\* (constraints.mood or "").lower()
MoodOf(c) == IF TruthySeq(c.mood) THEN Lower(Val(c.mood)) ELSE <<>>

\* NutritionData with 0 filled in for the macros the recipe does not carry
NutritionData_Defaulted(recipe) ==
    LET opt(k) == IF IsSet(get_macro(recipe, k))
                  THEN << <<k, Val(get_macro(recipe, k))>> >> ELSE << <<k, RInt(0)>> >>
    IN  << <<"calories", Val(get_macro(recipe, "calories"))>> >>
        \o opt("protein_g") \o opt("carbs_g") \o opt("fat_g") \o opt("sugar_g")

\* nutrition_data passed to predict_both: <<key, value>> in insertion order
NutritionData(recipe) ==
    LET opt(k) == IF IsSet(get_macro(recipe, k))
                  THEN << <<k, Val(get_macro(recipe, k))>> >> ELSE <<>>
    IN  << <<"calories", Val(get_macro(recipe, "calories"))>> >>
        \o opt("protein_g") \o opt("carbs_g") \o opt("fat_g") \o opt("sugar_g")

\* the calls of predict_both made by compute_mood_energy_score(recipe, ...),
\* each one as the nutrition_data it passes
PredictBothCalls(recipe) ==
    IF IsSet(get_macro(recipe, "calories")) THEN <<NutritionData(recipe)>> ELSE <<>>

\* the mood mapping of the ML block, given a mood result
MLMoodTerm(mood, mood_result) ==
    LET mood_label == Lower(mood_result.label)
        mood_confidence == mood_result.confidence
        nothing == [delta |-> RInt(0), reasons |-> <<>>]
    IN  IF mood \in ComfortMoodsML
        THEN IF mood_label = happy
             THEN [delta |-> RMul(R(5, 10), mood_confidence),
                   reasons |-> <<"ML predicts " \o StrOf(mood_label) \o " mood (conf: "
                                 \o Percent0(mood_confidence) \o ")">>]
             ELSE IF mood_label = sad
             THEN [delta |-> RMul(R(-3, 10), mood_confidence),
                   reasons |-> <<"ML predicts " \o StrOf(mood_label)
                                 \o " mood - may not match comfort request">>]
             ELSE nothing
        ELSE IF mood \in LightMoods
        THEN IF mood_label = neutral \/ mood_label = happy
             THEN [delta |-> RMul(R(3, 10), mood_confidence),
                   reasons |-> <<"ML predicts " \o StrOf(mood_label)
                                 \o " mood - good for light meal">>]
             ELSE nothing
        ELSE IF mood_label = neutral
             THEN [delta |-> RMul(R(2, 10), mood_confidence),
                   reasons |-> <<"ML predicts neutral mood">>]
             ELSE nothing

\* MLEnergyTerm without the penalty for an energizing recipe at low energy
MLEnergyTerm_NoPenalty(energy, energy_result) ==
    LET energy_label == Lower(energy_result.label)
        energy_confidence == energy_result.confidence
        nothing == [delta |-> RInt(0), reasons |-> <<>>]
    IN  IF energy = low
        THEN IF StrIn(low, energy_label) \/ StrIn(normal, energy_label)
             THEN [delta |-> RMul(R(4, 10), energy_confidence),
                   reasons |-> <<"ML predicts " \o StrOf(energy_label) \o " energy (conf: "
                                 \o Percent0(energy_confidence) \o ")">>]
             ELSE nothing
        ELSE IF energy = high
        THEN IF StrIn(burst, energy_label) \/ StrIn(energy_word, energy_label)
             THEN [delta |-> RMul(R(5, 10), energy_confidence),
                   reasons |-> <<"ML predicts " \o StrOf(energy_label) \o " (conf: "
                                 \o Percent0(energy_confidence) \o ")">>]
             ELSE IF StrIn(normal, energy_label)
             THEN [delta |-> RMul(R(2, 10), energy_confidence),
                   reasons |-> <<"ML predicts " \o StrOf(energy_label) \o " energy">>]
             ELSE nothing
        ELSE IF StrIn(normal, energy_label)
             THEN [delta |-> RMul(R(3, 10), energy_confidence),
                   reasons |-> <<"ML predicts " \o StrOf(energy_label) \o " energy">>]
             ELSE nothing

\* the energy mapping of the ML block, given an energy result
MLEnergyTerm(energy, energy_result) ==
    LET energy_label == Lower(energy_result.label)
        energy_confidence == energy_result.confidence
        nothing == [delta |-> RInt(0), reasons |-> <<>>]
    IN  IF energy = low
        THEN IF StrIn(low, energy_label) \/ StrIn(normal, energy_label)
             THEN [delta |-> RMul(R(4, 10), energy_confidence),
                   reasons |-> <<"ML predicts " \o StrOf(energy_label) \o " energy (conf: "
                                 \o Percent0(energy_confidence) \o ")">>]
             ELSE [delta |-> RMul(R(-2, 10), energy_confidence),
                   reasons |-> <<"ML predicts " \o StrOf(energy_label)
                                 \o " - may be too energizing">>]
        ELSE IF energy = high
        THEN IF StrIn(burst, energy_label) \/ StrIn(energy_word, energy_label)
             THEN [delta |-> RMul(R(5, 10), energy_confidence),
                   reasons |-> <<"ML predicts " \o StrOf(energy_label) \o " (conf: "
                                 \o Percent0(energy_confidence) \o ")">>]
             ELSE IF StrIn(normal, energy_label)
             THEN [delta |-> RMul(R(2, 10), energy_confidence),
                   reasons |-> <<"ML predicts " \o StrOf(energy_label) \o " energy">>]
             ELSE nothing
        ELSE IF StrIn(normal, energy_label)
             THEN [delta |-> RMul(R(3, 10), energy_confidence),
                   reasons |-> <<"ML predicts " \o StrOf(energy_label) \o " energy">>]
             ELSE nothing

\* str(e) of the TypeError raised by subscripting a None result
NoneSubscriptError == "'NoneType' object is not subscriptable"

\* MLBlock applying the energy mapping's "unspecified" branch also when no
\* energy level is requested
MLBlock_AlwaysMaps(mood, energy, outcome) ==
    IF outcome.raises
    THEN [score |-> RInt(0), reasons |-> <<>>,
          set |-> [ml_error |-> outcome.error, ml_used |-> FALSE]]
    ELSE IF IsNone(outcome.energy)
    THEN [score |-> RInt(0), reasons |-> <<>>,
          set |-> [ml_used |-> FALSE, ml_mood |-> outcome.mood,
                   ml_energy |-> outcome.energy, ml_error |-> NoneSubscriptError]]
    ELSE [score |-> MLEnergyTerm(energy, Val(outcome.energy)).delta,
          reasons |-> MLEnergyTerm(energy, Val(outcome.energy)).reasons,
          set |-> [ml_used |-> TRUE, ml_mood |-> outcome.mood,
                   ml_energy |-> outcome.energy]]

\* The try block.  `outcome` is what predict_both does on this call:
\*   [raises |-> TRUE, error |-> text]            it raises
\*   [raises |-> FALSE, mood |-> Optional result, energy |-> Optional result]
\* Result: score and reasons after the block, ml_used, and the debug keys
\* the block has set (as a record).
MLBlock(mood, energy, outcome) ==
    IF outcome.raises
    THEN [score |-> RInt(0), reasons |-> <<>>,
          set |-> [ml_error |-> outcome.error, ml_used |-> FALSE]]
    ELSE LET results == [ml_used |-> TRUE, ml_mood |-> outcome.mood,
                         ml_energy |-> outcome.energy]
             failed == [ml_used |-> FALSE, ml_mood |-> outcome.mood,
                        ml_energy |-> outcome.energy,
                        ml_error |-> NoneSubscriptError]
         IN  IF mood # <<>> /\ IsNone(outcome.mood)
             THEN [score |-> RInt(0), reasons |-> <<>>, set |-> failed]
             ELSE LET m == IF mood # <<>> THEN MLMoodTerm(mood, Val(outcome.mood))
                           ELSE [delta |-> RInt(0), reasons |-> <<>>]
                  IN  IF energy # <<>> /\ IsNone(outcome.energy)
                      THEN [score |-> RInt(0), reasons |-> m.reasons, set |-> failed]
                      ELSE LET e == IF energy # <<>>
                                    THEN MLEnergyTerm(energy, Val(outcome.energy))
                                    ELSE [delta |-> RInt(0), reasons |-> <<>>]
                               ml_score == RAdd(m.delta, e.delta)
                           IN  [score |-> IF ~REq(ml_score, RInt(0))
                                          THEN ml_score ELSE RInt(0),
                                reasons |-> m.reasons \o e.reasons,
                                set |-> results]

\* the energy-driven heuristic rules
HeuristicEnergy(energy, calories, protein, time_minutes) ==
    IF energy = low
    THEN LET a == IF IsSet(calories) /\ RLe(Val(calories), RInt(550))
                  THEN [delta |-> R(3, 10),
                        reasons |-> <<"lighter on calories for low energy">>]
                  ELSE [delta |-> RInt(0), reasons |-> <<>>]
             b == IF TruthyInt(time_minutes) /\ Val(time_minutes) <= 30
                  THEN [delta |-> R(1, 10), reasons |-> <<"quick prep for low energy">>]
                  ELSE [delta |-> RInt(0), reasons |-> <<>>]
         IN  [delta |-> RAdd(a.delta, b.delta), reasons |-> a.reasons \o b.reasons]
    ELSE IF energy = high
    THEN IF IsSet(protein) /\ RLe(RInt(25), Val(protein))
         THEN [delta |-> R(3, 10), reasons |-> <<"higher protein for high energy">>]
         ELSE IF IsSet(protein) /\ RLe(RInt(15), Val(protein))
         THEN [delta |-> R(1, 10), reasons |-> <<"moderate protein for energy">>]
         ELSE [delta |-> RInt(0), reasons |-> <<>>]
    ELSE [delta |-> RInt(0), reasons |-> <<>>]

\* the mood-driven heuristic rules
HeuristicMood(mood, calories, fat, protein) ==
    IF mood \in ComfortMoods
    THEN IF IsSet(calories) /\ RLe(RInt(650), Val(calories))
         THEN [delta |-> R(3, 10), reasons |-> <<"comforting calories">>]
         ELSE [delta |-> R(-1, 10), reasons |-> <<"may be lighter than comfort craving">>]
    ELSE IF mood \in LightMoods
    THEN IF /\ IsSet(calories) /\ RLe(Val(calories), RInt(550))
            /\ (IsNone(fat) \/ RLe(Val(fat), RInt(20)))
         THEN [delta |-> R(3, 10), reasons |-> <<"light profile">>]
         ELSE [delta |-> R(-1, 10),
               reasons |-> <<"may be heavier than requested light mood">>]
    ELSE IF mood \in FocusMoods
    THEN IF IsSet(protein) /\ RLe(RInt(25), Val(protein))
         THEN [delta |-> R(3, 10), reasons |-> <<"protein to support focus/recovery">>]
         ELSE [delta |-> R(-1, 10),
               reasons |-> <<"may need more protein for focus/recovery">>]
    ELSE [delta |-> RInt(0), reasons |-> <<>>]

\* MoodEnergyResult without the heuristic fallback
MoodEnergyResult_NoFallback(debug0, ml, he, hm) ==
    [score |-> Clamp(ml.score),
     explanation |-> IF ml.reasons # <<>> THEN Join("; ", ml.reasons)
                     ELSE "Mood/energy neutral",
     debug |-> DictSet(ml.set @@ debug0, "score", Clamp(ml.score))]

\* the end of compute_mood_energy_score: the heuristic fallback, the clamp, the
\* explanation and the debug dict, from the try block's result `ml` and the
\* heuristic terms `he` and `hm`
MoodEnergyResult(debug0, ml, he, hm) ==
    LET debug1 == ml.set @@ debug0
        fallback == ~debug1.ml_used \/ REq(ml.score, RInt(0))
        score == IF fallback THEN RAdd(RAdd(ml.score, he.delta), hm.delta) ELSE ml.score
        reasons == IF fallback THEN ml.reasons \o he.reasons \o hm.reasons ELSE ml.reasons
    IN  [score |-> Clamp(score),
         explanation |-> IF reasons # <<>> THEN Join("; ", reasons)
                         ELSE "Mood/energy neutral",
         debug |-> DictSet(debug1, "score", Clamp(score))]

\* compute_mood_energy_score(recipe, constraints) -> (score, explanation, debug),
\* with predict_both behaving as `outcome`
compute_mood_energy_score(recipe, c, outcome) ==
    LET mood == MoodOf(c)
        energy == EnergyOf(c)
        calories == get_macro(recipe, "calories")
        fat == get_macro(recipe, "fat_g")
        protein == get_macro(recipe, "protein_g")
        carbs == get_macro(recipe, "carbs_g")
        sugar == get_macro(recipe, "sugar_g")
        time_minutes == recipe.time_minutes
    IN  MoodEnergyResult(
            [mood |-> mood, energy |-> energy, calories |-> calories,
             fat_g |-> fat, protein_g |-> protein, carbs_g |-> carbs,
             sugar_g |-> sugar, time_minutes |-> time_minutes, ml_used |-> FALSE],
            IF IsSet(calories) THEN MLBlock(mood, energy, outcome)
            ELSE [score |-> RInt(0), reasons |-> <<>>, set |-> [ml_used |-> FALSE]],
            HeuristicEnergy(energy, calories, protein, time_minutes),
            HeuristicMood(mood, calories, fat, protein))

----------------------------------------------------------------------------
(* score_recipes: soft scores, reason, explanation, debug and the final sort *)

\* SCORE_WEIGHTS before the mood_energy weight was raised from 0.15 to 0.25
SCORE_WEIGHTS_Old ==
    [coverage |-> R(30, 100), expiring |-> R(25, 100),
     nutrition |-> R(30, 100), mood_energy |-> R(15, 100)]

\* SCORE_WEIGHTS
SCORE_WEIGHTS ==
    [coverage |-> R(30, 100), expiring |-> R(25, 100),
     nutrition |-> R(20, 100), mood_energy |-> R(25, 100)]

\* keys of pantry_items_map: {item.name.lower() for item in pantry_items}
PantryNames(items) == {Lower(items[i].name) : i \in DOMAIN items}

\* the number of ingredients that some pantry name matches
HaveCount(ings, items) ==
    Cardinality({i \in DOMAIN ings :
                    \E pname \in PantryNames(items) :
                        StrIn(ings[i], pname) \/ StrIn(pname, ings[i])})

\* code points of the characters, in increasing order
CharOrder == OtherChars \o UpperChars \o LowerChars

CharRank == [ch \in Chars |-> CHOOSE i \in DOMAIN CharOrder : CharOrder[i] = ch]

\* a < b for str
RECURSIVE StrLess(_, _)
StrLess(a, b) ==
    IF b = <<>> THEN FALSE
    ELSE IF a = <<>> THEN TRUE
    ELSE IF Head(a) = Head(b) THEN StrLess(Tail(a), Tail(b))
    ELSE CharRank[Head(a)] < CharRank[Head(b)]

\* sorted(S) for a set of str
RECURSIVE SortedStrs(_)
SortedStrs(S) ==
    IF S = {} THEN <<>>
    ELSE LET m == CHOOSE x \in S : \A y \in S \ {x} : StrLess(x, y)
         IN  <<m>> \o SortedStrs(S \ {m})

\* int(x * 100)
Percent(x) == PyInt(RMul(x, RInt(100)))

\* the reason string of one scored recipe
ReasonStr(recipe, c, coverage_score, expiring_score, nutrition_score, mood_energy_score) ==
    LET reasons ==
            (IF RLe(R(7, 10), coverage_score)
             THEN <<"has " \o ToString(Percent(coverage_score)) \o "% of ingredients">>
             ELSE <<>>)
            \o (IF RLe(R(3, 10), expiring_score) THEN <<"uses expiring items">> ELSE <<>>)
            \o (IF TruthyInt(recipe.time_minutes)
                THEN <<"Quick (" \o ToString(Val(recipe.time_minutes)) \o " min)">>
                ELSE <<>>)
            \o (IF TruthySeq(recipe.diet) \/ TruthySeq(c.diet_types)
                THEN <<IF TruthySeq(recipe.diet) THEN StrOf(Val(recipe.diet))
                       ELSE "Matching diet">>
                ELSE <<>>)
            \o (IF RLt(RInt(0), nutrition_score) THEN <<"fits nutrition goal">> ELSE <<>>)
            \o (IF RLt(RInt(0), mood_energy_score) THEN <<"matches mood/energy">> ELSE <<>>)
    IN  IF reasons # <<>> THEN Join(", ", reasons) ELSE "Good match"

\* ExplanationStr listing the matched names as they were matched, neither
\* deduplicated nor sorted
ExplanationStr_Unsorted(coverage_score, matched_expiring, nutrition_explanation, mood_energy_explanation) ==
    Join("; ",
         (IF ~REq(coverage_score, RInt(0))
          THEN <<"Pantry coverage: " \o ToString(Percent(coverage_score)) \o "%">>
          ELSE <<>>)
         \o (IF matched_expiring # <<>>
             THEN <<"Uses expiring: "
                    \o Join(", ", [i \in DOMAIN matched_expiring |->
                                       StrOf(matched_expiring[i])])>>
             ELSE <<>>)
         \o (IF nutrition_explanation # "" THEN <<nutrition_explanation>> ELSE <<>>)
         \o (IF mood_energy_explanation # "" THEN <<mood_energy_explanation>> ELSE <<>>))

\* the explanation string of one scored recipe
ExplanationStr(coverage_score, matched_expiring, nutrition_explanation, mood_energy_explanation) ==
    LET names == SortedStrs(Range(matched_expiring))
        explanation_parts ==
            (IF ~REq(coverage_score, RInt(0))
             THEN <<"Pantry coverage: " \o ToString(Percent(coverage_score)) \o "%">>
             ELSE <<>>)
            \o (IF matched_expiring # <<>>
                THEN <<"Uses expiring: "
                       \o Join(", ", [i \in DOMAIN names |-> StrOf(names[i])])>>
                ELSE <<>>)
            \o (IF nutrition_explanation # "" THEN <<nutrition_explanation>> ELSE <<>>)
            \o (IF mood_energy_explanation # "" THEN <<mood_energy_explanation>> ELSE <<>>)
    IN  Join("; ", explanation_parts)

\* the dict appended to scored_recipes, from the results of the four scorers
ScoredEntry(recipe, c, total, have_count, exp, nut, me) ==
    LET coverage_score == R(have_count, total)
    IN  [recipe |-> recipe,
         recipe_id |-> recipe.id,
         title |-> recipe.title,
         score |-> RAdd(RAdd(RMul(SCORE_WEIGHTS.coverage, coverage_score),
                             RMul(SCORE_WEIGHTS.expiring, exp.score)),
                        RAdd(RMul(SCORE_WEIGHTS.nutrition, nut.score),
                             RMul(SCORE_WEIGHTS.mood_energy, me.score))),
         coverage |-> coverage_score,
         expiring |-> exp.score,
         nutrition |-> nut.score,
         mood_energy |-> me.score,
         time_minutes |-> recipe.time_minutes,
         reason |-> ReasonStr(recipe, c, coverage_score, exp.score, nut.score, me.score),
         explanation |-> ExplanationStr(coverage_score, exp.matched,
                                        nut.explanation, me.explanation),
         debug |-> [weights |-> SCORE_WEIGHTS,
                    coverage |-> [score |-> coverage_score, matched |-> have_count,
                                  total |-> total],
                    expiring |-> [score |-> exp.score, matched |-> exp.matched],
                    nutrition |-> nut.debug @@ [score |-> nut.score,
                                                explanation |-> nut.explanation],
                    mood_energy |-> me.debug @@ [score |-> me.score,
                                                 explanation |-> me.explanation]]]

\* the soft scoring of a recipe that passed the filters
ScoredRecipe(recipe, items, c, outcome) ==
    ScoredEntry(recipe, c, Len(IngNames(recipe)),
                HaveCount(IngNames(recipe), items),
                compute_expiring_score(recipe, items),
                compute_nutrition_score(recipe, c),
                compute_mood_energy_score(recipe, c, outcome))

\* scored_recipes after the loop over the first n recipes
RECURSIVE ScoredUpTo(_, _, _, _, _)
ScoredUpTo(rs, items, c, outcome, n) ==
    IF n = 0 THEN <<>>
    ELSE LET prev == ScoredUpTo(rs, items, c, outcome, n - 1)
         IN  IF PassesHardFilters(rs[n], c)
             THEN Append(prev, ScoredRecipe(rs[n], items, c, outcome))
             ELSE prev

\* InsertByScore placing x before the elements whose score equals x's
InsertByScore_Unstable(sorted, x) ==
    LET k == Cardinality({i \in DOMAIN sorted : RLt(x.score, sorted[i].score)})
    IN  SubSeq(sorted, 1, k) \o <<x>> \o SubSeq(sorted, k + 1, Len(sorted))

\* x placed in a list already sorted by descending score, after every element
\* whose score is at least x's
InsertByScore(sorted, x) ==
    LET k == Cardinality({i \in DOMAIN sorted : RLe(x.score, sorted[i].score)})
    IN  SubSeq(sorted, 1, k) \o <<x>> \o SubSeq(sorted, k + 1, Len(sorted))

\* A macro value is a float, held as a pair <<n, d>>; a malformed row can
\* carry a str instead, held as its characters (three or more of them here).
IsNumber(v) == Len(v) = 2

\* the macro is present and ordering it against a number raises TypeError
ComparisonRaises(value) == IsSet(value) /\ ~IsNumber(Val(value))

\* compute_nutrition_score raises: the loop compares a non-numeric macro of
\* the goal with its target; nothing in the function catches it
compute_nutrition_score_raises(recipe, c) ==
    /\ TruthyStr(infer_nutrition_goal(c))
    /\ Val(infer_nutrition_goal(c)) \in ThresholdGoals
    /\ \E n \in DOMAIN NUTRITION_THRESHOLDS[Val(infer_nutrition_goal(c))] :
           ComparisonRaises(
               get_macro(recipe, NUTRITION_THRESHOLDS[Val(infer_nutrition_goal(c))][n][1]))

\* the heuristic rules compare a non-numeric macro; they run outside the
\* try block
HeuristicsRaise(mood, energy, calories, fat, protein) ==
    \/ energy = low /\ ComparisonRaises(calories)
    \/ energy = high /\ ComparisonRaises(protein)
    \/ mood \in ComfortMoods /\ ComparisonRaises(calories)
    \/ /\ mood \in LightMoods
       /\ \/ ComparisonRaises(calories)
          \/ /\ IsSet(calories) /\ RLe(Val(calories), RInt(550))
             /\ ComparisonRaises(fat)
    \/ mood \in FocusMoods /\ ComparisonRaises(protein)

\* the heuristic fallback runs: the try block was skipped or failed, or left
\* the score at 0.0
FallbackRuns(calories, ml) == IsNone(calories) \/ ~ml.set.ml_used \/ REq(ml.score, RInt(0))

\* compute_mood_energy_score raises
compute_mood_energy_score_raises(recipe, c, outcome) ==
    /\ FallbackRuns(get_macro(recipe, "calories"), MLBlock(MoodOf(c), EnergyOf(c), outcome))
    /\ HeuristicsRaise(MoodOf(c), EnergyOf(c), get_macro(recipe, "calories"),
                       get_macro(recipe, "fat_g"), get_macro(recipe, "protein_g"))

\* score_recipes raises: scoring a recipe that passed the filters raises, and
\* the loop has no exception handler
score_recipes_raises(rs, items, c, outcome) ==
    \E n \in DOMAIN rs :
        /\ PassesHardFilters(rs[n], c)
        /\ \/ compute_nutrition_score_raises(rs[n], c)
           \/ compute_mood_energy_score_raises(rs[n], c, outcome)

\* list.sort(key=score, reverse=True): stable, descending
RECURSIVE SortByScoreDesc(_, _)
SortByScoreDesc(s, n) ==
    IF n = 0 THEN <<>> ELSE InsertByScore(SortByScoreDesc(s, n - 1), s[n])

\* score_recipes(recipes, pantry_items, constraints) -> List[dict]
score_recipes(rs, items, c, outcome) ==
    LET scored_recipes == ScoredUpTo(rs, items, c, outcome, Len(rs))
    IN  SortByScoreDesc(scored_recipes, Len(scored_recipes))

----------------------------------------------------------------------------
(* Inputs *)

MaxIngredients == 2

MaxTime == 2

MaxRecipes == 2

\* sequences over S of length lo..hi
SeqsBetween(S, lo, hi) == UNION {[1..n -> S] : n \in lo..hi}

NoMacros ==
    [calories |-> None, protein_g |-> None, carbs_g |-> None, fat_g |-> None,
     sugar_g |-> None, nutrition_calories |-> None, nutrition_protein_g |-> None,
     nutrition_carbs_g |-> None, nutrition_fat_g |-> None, nutrition_sugar_g |-> None]

\* a Recipe row
MkRecipe(id, time_minutes, diet, ingredients, macros) ==
    [id |-> id, title |-> "Recipe " \o ToString(id), time_minutes |-> time_minutes,
     diet |-> diet, ingredients |-> ingredients] @@ macros

\* a UserConstraints with every field None
NoConstraints ==
    [mood |-> None, energy_level |-> None, diet_types |-> None,
     include_ingredients |-> None, exclude_ingredients |-> None,
     max_time_minutes |-> None, prioritize_macro |-> None, nutrition_goal |-> None]

\* an Item row
MkItem(name, kind, days) == [name |-> name, expiration_date |-> [kind |-> kind, days |-> days]]

\* recipe ids are the positions in the list (primary keys are distinct)
WithIds(rs) == [i \in DOMAIN rs |-> [rs[i] EXCEPT !.id = i, !.title = "Recipe " \o ToString(i)]]

\* ingredient names: a meat, a fish, a dairy and a plant ingredient
IngredientPool ==
    {<<"C", "h", "i", "c", "k", "e", "n">>,
     <<"t", "u", "n", "a">>,
     <<"B", "u", "t", "t", "e", "r">>,
     <<"p", "e", "a", "n", "u", "t">>}

\* include / exclude lists: a term inside an ingredient name ("PEA" in
\* "peanut"), a term containing one ("chicken breast"), and an exact name
TermLists ==
    {None, Some(<<>>),
     Some(<< <<"P", "E", "A">> >>),
     Some(<< <<"c", "h", "i", "c", "k", "e", "n", " ", "b", "r", "e", "a", "s", "t">> >>),
     Some(<< <<"T", "u", "n", "a">>, <<"p", "e", "a", "n", "u", "t">> >>)}

DietTypeLists ==
    {None, Some(<<>>),
     Some(<< <<"V", "E", "G", "A", "N">> >>),
     Some(<< <<"v", "e", "g", "e", "t", "a", "r", "i", "a", "n">> >>),
     Some(<< <<"p", "e", "s", "c", "a", "t", "a", "r", "i", "a", "n">>,
             <<"o", "m", "n", "i", "v", "o", "r", "e">> >>)}

DietTags == {None, Some(<<"V", "e", "g", "a", "n">>)}

\* a full macro profile (the end-to-end scenario's bowl)
BowlMacros ==
    [NoMacros EXCEPT !.calories = Some(RInt(550)), !.protein_g = Some(RInt(38)),
                     !.carbs_g = Some(RInt(45)), !.fat_g = Some(RInt(12))]

FilterRecipes ==
    {MkRecipe(1, t, d, ings, BowlMacros) :
        t \in Opt(0..MaxTime), d \in DietTags,
        ings \in {None} \cup {Some(l) : l \in SeqsBetween(IngredientPool, 0, MaxIngredients)}}

\* recipes for the lists of several recipes
FewRecipes ==
    {MkRecipe(1, Some(MaxTime), None, Some(<<i>>), BowlMacros) : i \in IngredientPool}

FilterRecipeLists ==
    {<<r>> : r \in FilterRecipes}
    \cup {WithIds(l) : l \in SeqsBetween(FewRecipes, 2, MaxRecipes)}

FilterConstraints ==
    {[NoConstraints EXCEPT !.max_time_minutes = t, !.diet_types = d,
                           !.include_ingredients = inc, !.exclude_ingredients = exc] :
        t \in Opt(0..MaxTime), d \in DietTypeLists, inc \in TermLists, exc \in TermLists}

FilterPantry ==
    << MkItem(<<"P", "e", "a", "n", "u", "t", " ", "B", "u", "t", "t", "e", "r">>, "date", 3),
       MkItem(<<"c", "h", "i", "c", "k", "e", "n">>, "none", 0) >>

\* predict_both returns two results
SomePrediction ==
    [raises |-> FALSE,
     mood |-> Some([label |-> <<"H", "a", "p", "p", "y">>, confidence |-> R(1, 2)]),
     energy |-> Some([label |-> <<"N", "o", "r", "m", "a", "l">>, confidence |-> R(1, 1)])]

----------------------------------------------------------------------------
(* score_recipes as the operation of the state machine *)

InitFilter ==
    /\ recipes \in FilterRecipeLists
    /\ pantry_items = FilterPantry
    /\ constraints \in FilterConstraints
    /\ predictor = SomePrediction
    /\ pc = "ready"
    /\ ret = <<>>

\* scored = score_recipes(recipes, pantry_items, constraints); an exception
\* raised while scoring leaves the call with no result (pc is its type)
ScoreRecipes ==
    /\ pc = "ready"
    /\ IF score_recipes_raises(recipes, pantry_items, constraints, predictor)
       THEN pc' = "TypeError" /\ ret' = ret
       ELSE /\ ret' = score_recipes(recipes, pantry_items, constraints, predictor)
            /\ pc' = "score_recipes"
    /\ UNCHANGED <<recipes, pantry_items, constraints, predictor>>

NextFilter == ScoreRecipes

SpecFilter == InitFilter /\ [][NextFilter]_vars

----------------------------------------------------------------------------
(* infer_nutrition_goal and compute_nutrition_score as operations *)

NutritionGoals == {None, Some(""), Some("high_protein"), Some("low_carb"),
                   Some("low_calorie"), Some("keto")}

MacroHints == {None, Some("high_protein"), Some("low_carb"), Some("low_calorie"),
               Some("high_carb")}

EnergyLevels ==
    {None, Some(<<>>), Some(<<"h", "i", "g", "h">>), Some(<<"H", "i", "g", "h">>),
     Some(<<"L", "O", "W">>), Some(<<"m", "e", "d", "i", "u", "m">>)}

\* every combination of the three fields the goal is resolved from
GoalConstraints ==
    {[NoConstraints EXCEPT !.nutrition_goal = g, !.prioritize_macro = m,
                           !.energy_level = e] :
        g \in NutritionGoals, m \in MacroHints, e \in EnergyLevels}

\* one way to every goal, to an unknown goal and to no goal
ScoringConstraints ==
    {[NoConstraints EXCEPT !.nutrition_goal = g] :
        g \in {None, Some("high_protein"), Some("low_carb"), Some("keto")}}
    \cup {[NoConstraints EXCEPT !.prioritize_macro = Some("low_calorie")],
          [NoConstraints EXCEPT !.energy_level = Some(<<"H", "i", "g", "h">>)],
          [NoConstraints EXCEPT !.prioritize_macro = Some("high_carb"),
                                !.energy_level = Some(<<"m", "e", "d", "i", "u", "m">>)]}

\* macro values on both sides of every threshold of the scoring curve
ProteinValues ==
    {None, Some(RInt(0)), Some(R(299, 10)), Some(RInt(30)), Some(R(389, 10)),
     Some(RInt(39))}

CarbsValues ==
    {None, Some(R(49, 2)), Some(R(246, 10)), Some(RInt(35)), Some(R(351, 10))}

CaloriesValues == {None, Some(RInt(385)), Some(RInt(386)), Some(RInt(550)), Some(RInt(551))}

NutritionRecipes ==
    {MkRecipe(1, None, None, Some(<< <<"r", "i", "c", "e">> >>),
              [NoMacros EXCEPT !.protein_g = p, !.nutrition_protein_g = np,
                               !.carbs_g = cb, !.nutrition_carbs_g = ncb,
                               !.calories = cal, !.nutrition_calories = ncal]) :
        p \in ProteinValues, np \in {None, Some(RInt(40))},
        cb \in CarbsValues, ncb \in {None, Some(RInt(20))},
        cal \in CaloriesValues, ncal \in {None, Some(RInt(600))}}

InitNutrition ==
    /\ \/ /\ constraints \in GoalConstraints
          /\ recipes = <<MkRecipe(1, None, None, Some(<< <<"r", "i", "c", "e">> >>), BowlMacros)>>
       \/ /\ constraints \in ScoringConstraints
          /\ recipes \in {<<r>> : r \in NutritionRecipes}
    /\ pantry_items = <<>>
    /\ predictor = SomePrediction
    /\ pc = "ready"
    /\ ret = <<>>

\* goal = infer_nutrition_goal(constraints)
InferNutritionGoal ==
    /\ pc = "ready"
    /\ ret' = infer_nutrition_goal(constraints)
    /\ pc' = "infer_nutrition_goal"
    /\ UNCHANGED <<recipes, pantry_items, constraints, predictor>>

\* score, explanation, debug = compute_nutrition_score(recipe, constraints)
ComputeNutritionScore ==
    /\ pc = "ready"
    /\ ret' = compute_nutrition_score(recipes[1], constraints)
    /\ pc' = "compute_nutrition_score"
    /\ UNCHANGED <<recipes, pantry_items, constraints, predictor>>

NextNutrition == InferNutritionGoal \/ ComputeNutritionScore

SpecNutrition == InitNutrition /\ [][NextNutrition]_vars

----------------------------------------------------------------------------
(* compute_expiring_score as an operation *)

MaxPantry == 2

\* days from today to the expiration date: both sides of every window edge
DayOffsets == {-1, 0, 7, 8, 14, 15}

ExpirationDates ==
    {[kind |-> "none", days |-> 0], [kind |-> "bad", days |-> 0],
     [kind |-> "iso", days |-> 3]}
    \cup {[kind |-> "date", days |-> d] : d \in DayOffsets}

PantryNamePool ==
    {<<"P", "e", "a", "n", "u", "t", " ", "B", "u", "t", "t", "e", "r">>,
     <<"c", "h", "i", "c", "k", "e", "n">>}

PantryItems == {[name |-> n, expiration_date |-> e] : n \in PantryNamePool, e \in ExpirationDates}

ExpiringRecipes ==
    {MkRecipe(1, None, None, ings, NoMacros) :
        ings \in {None} \cup {Some(l) : l \in SeqsBetween(IngredientPool, 0, MaxIngredients)}}

InitExpiring ==
    /\ recipes \in {<<r>> : r \in ExpiringRecipes}
    /\ pantry_items \in SeqsBetween(PantryItems, 0, MaxPantry)
    /\ constraints = NoConstraints
    /\ predictor = SomePrediction
    /\ pc = "ready"
    /\ ret = <<>>

\* score, matched = compute_expiring_score(recipe, pantry_items)
ComputeExpiringScore ==
    /\ pc = "ready"
    /\ ret' = compute_expiring_score(recipes[1], pantry_items)
    /\ pc' = "compute_expiring_score"
    /\ UNCHANGED <<recipes, pantry_items, constraints, predictor>>

NextExpiring == ComputeExpiringScore

SpecExpiring == InitExpiring /\ [][NextExpiring]_vars

----------------------------------------------------------------------------
(* Properties of score_recipes: the hard filters *)

\* recipe k of the input is among the returned results
InResult(k) == \E i \in DOMAIN ret : ret[i].recipe_id = recipes[k].id

\* the ingredient names of a recipe as given (None counts as no ingredient)
IngredientsOf(recipe) ==
    IF IsSet(recipe.ingredients) THEN Val(recipe.ingredients) ELSE <<>>

\* the entries of an optional list (None counts as no entry)
EntriesOf(o) == IF IsSet(o) THEN Range(Val(o)) ELSE {}

\* a matches b: case-insensitive substring in either direction
Matches(a, b) == StrIn(Lower(a), Lower(b)) \/ StrIn(Lower(b), Lower(a))

\* some ingredient of the recipe matches the term
SomeIngredientMatches(recipe, term) ==
    \E i \in DOMAIN IngredientsOf(recipe) : Matches(IngredientsOf(recipe)[i], term)

\* C1: score_recipes never returns a recipe whose ingredient list is empty or
\* absent, whatever the constraints are.
C1_EmptyIngredientsExcluded ==
    pc = "score_recipes" =>
        /\ \A k \in DOMAIN recipes :
               IngredientsOf(recipes[k]) = <<>> => ~InResult(k)
        /\ \A i \in DOMAIN ret : IngredientsOf(ret[i].recipe) # <<>>

\* a recipe without ingredients was submitted with no filter active
C1_Witness ==
    /\ pc = "score_recipes"
    /\ constraints = NoConstraints
    /\ \E k \in DOMAIN recipes : IsNone(recipes[k].ingredients) /\ ~InResult(k)

\* C2: whenever max_time_minutes is set (any integer, 0 included) and the
\* recipe's time_minutes is set and strictly greater, the recipe is absent from
\* the result; a recipe whose time is unset or within the limit is not removed
\* by the time stage (it is returned when the other stages keep it).
C2_TimeFilterAnyLimit ==
    pc = "score_recipes" =>
        \A k \in DOMAIN recipes :
            LET r == recipes[k]
                over == /\ IsSet(constraints.max_time_minutes)
                        /\ IsSet(r.time_minutes)
                        /\ Val(r.time_minutes) > Val(constraints.max_time_minutes)
            IN  /\ over => ~InResult(k)
                /\ (/\ ~over
                    /\ HasIngredients(r)
                    /\ PassesDietFilter(r, constraints)
                    /\ PassesIncludeFilter(r, constraints)
                    /\ PassesExcludeFilter(r, constraints)) => InResult(k)

\* C3: no returned recipe has an ingredient matching an excluded term, and a
\* recipe none of whose ingredients matches an excluded term is not removed by
\* the exclude stage (it is returned when the other stages keep it).
C3_ExcludeFilter ==
    pc = "score_recipes" =>
        \A k \in DOMAIN recipes :
            LET r == recipes[k]
                hit == \E term \in EntriesOf(constraints.exclude_ingredients) :
                           SomeIngredientMatches(r, term)
            IN  /\ hit => ~InResult(k)
                /\ (/\ ~hit
                    /\ HasIngredients(r)
                    /\ PassesTimeFilter(r, constraints)
                    /\ PassesDietFilter(r, constraints)
                    /\ PassesIncludeFilter(r, constraints)) => InResult(k)

\* a recipe is removed only because its ingredient "Chicken" lies inside the
\* excluded term "chicken breast"
C3_Witness ==
    /\ pc = "score_recipes"
    /\ constraints = [NoConstraints EXCEPT !.exclude_ingredients =
           Some(<< <<"c", "h", "i", "c", "k", "e", "n", " ", "b", "r", "e", "a", "s", "t">> >>)]
    /\ \E k \in DOMAIN recipes :
           /\ IngredientsOf(recipes[k]) = << <<"C", "h", "i", "c", "k", "e", "n">> >>
           /\ ~InResult(k)

\* C4: a recipe is returned only if every entry of include_ingredients matches
\* one of its ingredients; with the time, diet and exclude filters inactive the
\* result is exactly the recipes with ingredients for which every entry matches.
C4_IncludeFilter ==
    pc = "score_recipes" =>
        \A k \in DOMAIN recipes :
            LET r == recipes[k]
                all == \A term \in EntriesOf(constraints.include_ingredients) :
                           SomeIngredientMatches(r, term)
            IN  /\ InResult(k) => all
                /\ (/\ IsNone(constraints.max_time_minutes)
                    /\ IsNone(constraints.diet_types)
                    /\ IsNone(constraints.exclude_ingredients)
                    /\ IngredientsOf(r) # <<>>) => (InResult(k) <=> all)

\* two entries are required; one recipe has both and is returned, another has
\* only one of them and is not
C4_Witness ==
    /\ pc = "score_recipes"
    /\ constraints = [NoConstraints EXCEPT !.include_ingredients =
           Some(<< <<"T", "u", "n", "a">>, <<"p", "e", "a", "n", "u", "t">> >>)]
    /\ \E k \in DOMAIN recipes :
           /\ IngredientsOf(recipes[k]) = << <<"t", "u", "n", "a">> >>
           /\ ~InResult(k)

\* the diet the claim infers from the ingredients: "vegan" without meat, fish
\* and dairy; else "vegetarian" without meat and fish; else "pescatarian"
\* without meat and with fish; none at all with meat
C5_InferredDiets(recipe) ==
    LET ings == LowerAll(IngredientsOf(recipe))
        meat == HasKeyword(meat_keywords, ings)
        fish == HasKeyword(fish_keywords, ings)
        dairy == HasKeyword(dairy_keywords, ings)
    IN  IF meat THEN {}
        ELSE IF fish THEN {pescatarian}
        ELSE IF dairy THEN {vegetarian}
        ELSE {vegan}

\* C5: with diet_types set (a non-empty list), a recipe passes the diet stage
\* iff its explicit tag, lower-cased, is in the lower-cased allowed set, or its
\* inferred diet is; a recipe with a meat ingredient and no allowed tag is
\* discarded for every allowed set, one listing "omnivore" included.
C5_DietFilter ==
    (pc = "score_recipes" /\ TruthySeq(constraints.diet_types)) =>
        \A k \in DOMAIN recipes :
            LET r == recipes[k]
                allowed == {Lower(d) : d \in EntriesOf(constraints.diet_types)}
                tagged == IsSet(r.diet) /\ Lower(Val(r.diet)) \in allowed
                passes == tagged \/ (C5_InferredDiets(r) \cap allowed # {})
                meat == HasKeyword(meat_keywords, LowerAll(IngredientsOf(r)))
            IN  /\ InResult(k) => passes
                /\ (/\ passes
                    /\ HasIngredients(r)
                    /\ PassesTimeFilter(r, constraints)
                    /\ PassesIncludeFilter(r, constraints)
                    /\ PassesExcludeFilter(r, constraints)) => InResult(k)
                /\ (meat /\ ~tagged) => ~InResult(k)

\* a chicken recipe without tag is discarded although "omnivore" is allowed and
\* no other filter is active
C5_Witness ==
    /\ pc = "score_recipes"
    /\ constraints = [NoConstraints EXCEPT !.diet_types =
           Some(<< <<"p", "e", "s", "c", "a", "t", "a", "r", "i", "a", "n">>,
                   <<"o", "m", "n", "i", "v", "o", "r", "e">> >>)]
    /\ \E k \in DOMAIN recipes :
           /\ IngredientsOf(recipes[k]) = << <<"C", "h", "i", "c", "k", "e", "n">> >>
           /\ IsNone(recipes[k].diet)
           /\ ~InResult(k)

----------------------------------------------------------------------------
(* Properties of compute_expiring_score *)

\* C6: the expiring score lies in [0,1]; with an empty pantry, or no pantry
\* item carrying an expiration date, or a recipe without ingredients, the score
\* is exactly 0 and the matched list is empty.
C6_ExpiringScoreRange ==
    pc = "compute_expiring_score" =>
        /\ RLe(RInt(0), ret.score) /\ RLe(ret.score, RInt(1))
        /\ (\/ pantry_items = <<>>
            \/ \A i \in DOMAIN pantry_items : pantry_items[i].expiration_date.kind = "none"
            \/ IngredientsOf(recipes[1]) = <<>>)
           => (REq(ret.score, RInt(0)) /\ ret.matched = <<>>)

\* every ingredient of the recipe is named in the pantry, but no pantry item
\* has an expiration date
C6_Witness ==
    /\ pc = "compute_expiring_score"
    /\ Len(pantry_items) = MaxPantry
    /\ \A i \in DOMAIN pantry_items : pantry_items[i].expiration_date.kind = "none"
    /\ IngredientsOf(recipes[1]) # <<>>
    /\ \A i \in DOMAIN IngredientsOf(recipes[1]) :
           \E j \in DOMAIN pantry_items :
               Matches(IngredientsOf(recipes[1])[i], pantry_items[j].name)
    /\ REq(ret.score, RInt(0))

----------------------------------------------------------------------------
(* Properties of infer_nutrition_goal and compute_nutrition_score *)

\* the goal the constraints resolve to: the explicit goal when set (not None
\* and not empty), else the macro hint when it is one of the three goals, else
\* the goal derived from the energy level, else none
ResolvedGoal(c) ==
    LET e == IF IsSet(c.energy_level) THEN Lower(Val(c.energy_level)) ELSE <<>>
    IN  IF IsSet(c.nutrition_goal) /\ Val(c.nutrition_goal) # "" THEN c.nutrition_goal
        ELSE IF c.prioritize_macro \in {Some("high_protein"), Some("low_carb"),
                                        Some("low_calorie")}
             THEN c.prioritize_macro
        ELSE IF e = <<"h", "i", "g", "h">> THEN Some("high_protein")
        ELSE IF e = <<"l", "o", "w">> THEN Some("low_calorie")
        ELSE None

\* C7: infer_nutrition_goal returns the explicit goal whenever it is set,
\* whatever the other two fields are; otherwise prioritize_macro iff it is one
\* of high_protein, low_carb, low_calorie; otherwise high_protein for energy
\* "high" and low_calorie for energy "low", compared case-insensitively;
\* otherwise none.
C7_GoalResolution ==
    pc = "infer_nutrition_goal" =>
        /\ ret = ResolvedGoal(constraints)
        /\ (IsSet(constraints.nutrition_goal) /\ Val(constraints.nutrition_goal) # "")
               => ret = constraints.nutrition_goal
        /\ (IsSet(ret) /\ ret # constraints.nutrition_goal /\ ret = constraints.prioritize_macro)
               => Val(ret) \in {"high_protein", "low_carb", "low_calorie"}

\* an explicit goal wins over a valid macro hint and an energy level that
\* would each give another goal
C7_Witness ==
    /\ pc = "infer_nutrition_goal"
    /\ constraints.nutrition_goal = Some("low_carb")
    /\ constraints.prioritize_macro = Some("high_protein")
    /\ constraints.energy_level = Some(<<"L", "O", "W">>)
    /\ ret = Some("low_carb")

\* the macro and the target of each goal of the threshold table
GoalMacro(goal) ==
    CASE goal = "high_protein" -> "protein_g"
      [] goal = "low_carb" -> "carbs_g"
      [] goal = "low_calorie" -> "calories"

GoalTarget(goal) ==
    CASE goal = "high_protein" -> 30
      [] goal = "low_carb" -> 35
      [] goal = "low_calorie" -> 550

\* the value of a macro on a recipe: under its primary name, else under the
\* "nutrition_"-prefixed name, else missing
MacroValue(recipe, macro) ==
    IF IsSet(recipe[macro]) THEN recipe[macro] ELSE recipe["nutrition_" \o macro]

\* the scoring curve of a goal at a macro value
Curve(goal, value) ==
    LET target == RInt(GoalTarget(goal))
    IN  IF goal = "high_protein"
        THEN IF RLe(RMul(R(13, 10), target), value) THEN R(10, 10)
             ELSE IF RLe(target, value) THEN R(6, 10)
             ELSE R(-5, 10)
        ELSE IF RLe(value, RMul(R(7, 10), target)) THEN R(10, 10)
             ELSE IF RLe(value, target) THEN R(4, 10)
             ELSE R(-6, 10)

\* the macro meets the goal's target
MeetsTarget(goal, value) ==
    IF goal = "high_protein" THEN RLe(RInt(GoalTarget(goal)), value)
    ELSE RLe(value, RInt(GoalTarget(goal)))

\* the call scored a recipe under one of the three goals of the table
ScoredUnderGoal ==
    /\ pc = "compute_nutrition_score"
    /\ IsSet(ResolvedGoal(constraints))
    /\ Val(ResolvedGoal(constraints)) \in {"high_protein", "low_carb", "low_calorie"}

\* C8: with the goal's macro present the score follows the curve (high_protein:
\* +1.0 from 1.3*30, +0.6 from 30, else -0.5; low_carb and low_calorie: +1.0 up
\* to 0.7*target, +0.4 up to target, else -0.6); it is > 0 iff the macro meets
\* the target and < 0 otherwise, and it lies in [-1,1].
C8_NutritionCurve ==
    ScoredUnderGoal =>
        LET goal == Val(ResolvedGoal(constraints))
            value == MacroValue(recipes[1], GoalMacro(goal))
        IN  IsSet(value) =>
                /\ REq(ret.score, Curve(goal, Val(value)))
                /\ RLt(RInt(0), ret.score) <=> MeetsTarget(goal, Val(value))
                /\ RLt(ret.score, RInt(0)) <=> ~MeetsTarget(goal, Val(value))
                /\ RLe(RInt(-1), ret.score) /\ RLe(ret.score, RInt(1))

\* protein exactly at 1.3 times the target scores +1.0 under high_protein
C8_Witness ==
    /\ ScoredUnderGoal
    /\ ResolvedGoal(constraints) = Some("high_protein")
    /\ recipes[1].protein_g = Some(RInt(39))
    /\ REq(ret.score, RInt(1))

\* C9: under a goal of the table, a recipe on which the goal's macro is missing
\* under both names gets score 0.0, the explanation "No nutrition data on
\* recipe" and the macro listed in debug.missing_macros, with no component
\* scored for it; a macro present only under the "nutrition_"-prefixed name is
\* scored with that value.
C9_MissingMacro ==
    ScoredUnderGoal =>
        LET goal == Val(ResolvedGoal(constraints))
            macro == GoalMacro(goal)
            r == recipes[1]
        IN  /\ (IsNone(r[macro]) /\ IsNone(r["nutrition_" \o macro])) =>
                   /\ REq(ret.score, RInt(0))
                   /\ ret.explanation = "No nutrition data on recipe"
                   /\ ret.debug.missing_macros = <<macro>>
                   /\ ret.debug.components = <<>>
                   /\ ret.debug.macros = << <<macro, None>> >>
            /\ (IsNone(r[macro]) /\ IsSet(r["nutrition_" \o macro])) =>
                   /\ REq(ret.score, Curve(goal, Val(r["nutrition_" \o macro])))
                   /\ ret.debug.macros = << <<macro, r["nutrition_" \o macro]>> >>
                   /\ ret.debug.missing_macros = <<>>

\* the goal is high_protein and the recipe has no protein value under either
\* name, although it carries other macros
C9_Witness ==
    /\ ScoredUnderGoal
    /\ ResolvedGoal(constraints) = Some("high_protein")
    /\ IsNone(recipes[1].protein_g) /\ IsNone(recipes[1].nutrition_protein_g)
    /\ IsSet(recipes[1].calories) /\ IsSet(recipes[1].carbs_g)
    /\ ret.explanation = "No nutrition data on recipe"

\* C10 as stated: when no goal resolves the result is score 0.0, the
\* explanation "No nutrition goal specified" and an empty debug mapping.
C10_NoGoalEmptyDebug ==
    (pc = "compute_nutrition_score" /\ IsNone(ResolvedGoal(constraints))) =>
        /\ REq(ret.score, RInt(0))
        /\ ret.explanation = "No nutrition goal specified"
        /\ DOMAIN ret.debug = {}

\* C10 amended: when no goal resolves the result is score 0.0, the explanation
\* "No nutrition goal specified" and a debug mapping that holds no data: its
\* keys are goal and thresholds, both None, and macros, components and
\* missing_macros, all empty, whatever macros the recipe carries.
C10_NoGoalBlankDebug ==
    (pc = "compute_nutrition_score" /\ IsNone(ResolvedGoal(constraints))) =>
        /\ REq(ret.score, RInt(0))
        /\ ret.explanation = "No nutrition goal specified"
        /\ DOMAIN ret.debug = {"goal", "thresholds", "macros", "components", "missing_macros"}
        /\ IsNone(ret.debug.goal)
        /\ IsNone(ret.debug.thresholds)
        /\ ret.debug.macros = <<>>
        /\ ret.debug.components = <<>>
        /\ ret.debug.missing_macros = <<>>

\* no goal resolves (an unknown macro hint and a medium energy level) for a
\* recipe that carries every macro of the threshold table
C10_Witness ==
    /\ pc = "compute_nutrition_score"
    /\ IsNone(ResolvedGoal(constraints))
    /\ IsSet(constraints.prioritize_macro)
    /\ IsSet(recipes[1].protein_g) /\ IsSet(recipes[1].carbs_g) /\ IsSet(recipes[1].calories)
    /\ ret.explanation = "No nutrition goal specified"


----------------------------------------------------------------------------
(* compute_mood_energy_score as an operation *)

MoodValues ==
    {None, Some(<<>>),
     Some(<<"C", "o", "m", "f", "o", "r", "t">>),
     Some(<<"l", "i", "g", "h", "t">>),
     Some(<<"f", "o", "c", "u", "s">>),
     Some(<<"h", "a", "p", "p", "y">>),
     Some(<<"c", "a", "l", "m">>)}

EnergyLevelValues ==
    {None, Some(<<>>),
     Some(<<"L", "O", "W">>),
     Some(<<"h", "i", "g", "h">>),
     Some(<<"m", "e", "d", "i", "u", "m">>)}

MoodEnergyConstraints ==
    {[NoConstraints EXCEPT !.mood = m, !.energy_level = e] :
        m \in MoodValues, e \in EnergyLevelValues}

\* recipes on both sides of the thresholds 550 / 650 (calories), 20 (fat),
\* 15 / 25 (protein) and 30 (minutes)
MoodEnergyRecipes ==
    {MkRecipe(1, t, None, Some(<< <<"r", "i", "c", "e">> >>),
              [NoMacros EXCEPT !.calories = cal, !.fat_g = f, !.protein_g = p]) :
        t \in {None, Some(0), Some(15), Some(45)},
        cal \in {None, Some(RInt(450)), Some(RInt(650))},
        f \in {None, Some(RInt(8)), Some(RInt(25))},
        p \in {None, Some(RInt(15)), Some(RInt(25))}}

\* recipes whose macros come from the nutrition_* fields, with carbs and sugar
\* values and with macros equal to 0
PredictorCallRecipes ==
    {MkRecipe(1, None, None, Some(<< <<"r", "i", "c", "e">> >>), m) :
        m \in {[NoMacros EXCEPT !.nutrition_calories = Some(RInt(450)),
                                !.sugar_g = Some(RInt(9))],
               [NoMacros EXCEPT !.calories = Some(RInt(0)), !.protein_g = Some(RInt(0)),
                                !.nutrition_carbs_g = Some(RInt(45))],
               [NoMacros EXCEPT !.calories = Some(RInt(650)), !.nutrition_calories = Some(RInt(450)),
                                !.protein_g = Some(RInt(25)), !.carbs_g = Some(RInt(45)),
                                !.fat_g = Some(RInt(8)), !.nutrition_sugar_g = Some(RInt(9))],
               [NoMacros EXCEPT !.protein_g = Some(RInt(25)), !.nutrition_sugar_g = Some(RInt(9))]}}

\* what predict_mood_effect can return: None or a result
MoodResults ==
    {None,
     Some([label |-> <<"H", "a", "p", "p", "y">>, confidence |-> R(1, 2)]),
     Some([label |-> <<"S", "a", "d">>, confidence |-> R(1, 1)]),
     Some([label |-> <<"N", "e", "u", "t", "r", "a", "l">>, confidence |-> R(0, 1)]),
     Some([label |-> <<"N", "e", "u", "t", "r", "a", "l">>, confidence |-> R(1, 1)])}

\* what predict_energy_effect can return: None or a result
EnergyResults ==
    {None,
     Some([label |-> <<"E", "n", "e", "r", "g", "y", " ", "B", "u", "r", "s", "t">>,
           confidence |-> R(3, 4)]),
     Some([label |-> <<"L", "o", "w">>, confidence |-> R(1, 1)]),
     Some([label |-> <<"N", "o", "r", "m", "a", "l">>, confidence |-> R(1, 2)])}

\* what a call of predict_both can do: raise, or return two optional results
PredictorOutcomes ==
    {[raises |-> TRUE, error |-> "model file not found"]}
    \cup {[raises |-> FALSE, mood |-> m, energy |-> e] :
            m \in MoodResults, e \in EnergyResults}

InitMoodEnergy ==
    /\ recipes \in {<<r>> : r \in MoodEnergyRecipes \cup PredictorCallRecipes}
    /\ pantry_items = <<>>
    /\ constraints \in MoodEnergyConstraints
    /\ predictor \in PredictorOutcomes
    /\ pc = "ready"
    /\ ret = <<>>

\* score, explanation, debug = compute_mood_energy_score(recipe, constraints);
\* the predictor keeps the calls it received
ComputeMoodEnergyScore ==
    /\ pc = "ready"
    /\ ret' = compute_mood_energy_score(recipes[1], constraints, predictor)
    /\ predictor' = [calls |-> PredictBothCalls(recipes[1])] @@ predictor
    /\ pc' = "compute_mood_energy_score"
    /\ UNCHANGED <<recipes, pantry_items, constraints>>

NextMoodEnergy == ComputeMoodEnergyScore

SpecMoodEnergy == InitMoodEnergy /\ [][NextMoodEnergy]_vars


----------------------------------------------------------------------------
(* Properties of compute_mood_energy_score *)

\* the heuristic rules alone, in tenths of a point
HeuristicPoints(recipe, c) ==
    LET m == MoodOf(c)
        e == EnergyOf(c)
        cal == get_macro(recipe, "calories")
        fat == get_macro(recipe, "fat_g")
        pro == get_macro(recipe, "protein_g")
        t == recipe.time_minutes
        atMost(v, n) == IsSet(v) /\ RLe(Val(v), RInt(n))
        atLeast(v, n) == IsSet(v) /\ RLe(RInt(n), Val(v))
        energyPoints ==
            IF e = <<"l", "o", "w">>
            THEN (IF atMost(cal, 550) THEN 3 ELSE 0)
                 + (IF IsSet(t) /\ Val(t) # 0 /\ Val(t) <= 30 THEN 1 ELSE 0)
            ELSE IF e = <<"h", "i", "g", "h">>
            THEN (IF atLeast(pro, 25) THEN 3 ELSE IF atLeast(pro, 15) THEN 1 ELSE 0)
            ELSE 0
        moodPoints ==
            IF m \in ComfortMoods THEN (IF atLeast(cal, 650) THEN 3 ELSE -1)
            ELSE IF m \in LightMoods
            THEN (IF atMost(cal, 550) /\ (IsNone(fat) \/ atMost(fat, 20)) THEN 3 ELSE -1)
            ELSE IF m \in FocusMoods THEN (IF atLeast(pro, 25) THEN 3 ELSE -1)
            ELSE 0
    IN  energyPoints + moodPoints

\* predict_both raised
PredictorRaised == predictor.raises

\* predict_both returned None for both results
PredictorNull ==
    IF predictor.raises THEN FALSE
    ELSE IsNone(predictor.mood) /\ IsNone(predictor.energy)

\* the reasons the heuristic rules can give
HeuristicReasons ==
    {"lighter on calories for low energy", "quick prep for low energy",
     "higher protein for high energy", "moderate protein for energy",
     "comforting calories", "may be lighter than comfort craving",
     "light profile", "may be heavier than requested light mood",
     "protein to support focus/recovery", "may need more protein for focus/recovery"}

\* the explanation is a "; "-joined list of heuristic reasons one of which
\* mentions 'lighter' or 'quick'
MentionsLighterOrQuick(explanation) ==
    \E s \in SeqsBetween(HeuristicReasons, 1, 2) :
        /\ \E i \in DOMAIN s : s[i] \in {"lighter on calories for low energy",
                                          "quick prep for low energy"}
        /\ explanation \in {Join("; ", s)} \cup {Join("; ", s \o <<r>>) : r \in HeuristicReasons}

\* C11: when predict_both raises or returns None for both results,
\* compute_mood_energy_score returns exactly the score of the heuristic rules
\* alone; when it raised, debug.ml_error holds the error text; and with
\* energy_level 'low', calories <= 550, time_minutes <= 30 and a null
\* predictor the score is > 0 and the explanation mentions 'lighter' or 'quick'.
C11_PredictorFailureDegrades ==
    (pc = "compute_mood_energy_score" /\ (PredictorRaised \/ PredictorNull)) =>
        LET cal == get_macro(recipes[1], "calories")
            t == recipes[1].time_minutes
        IN  /\ ret.score = R(HeuristicPoints(recipes[1], constraints), 10)
            /\ (PredictorRaised /\ IsSet(cal)) =>
                   /\ "ml_error" \in DOMAIN ret.debug
                   /\ ret.debug.ml_error = predictor.error
                   /\ ret.debug.ml_used = FALSE
            /\ (/\ PredictorNull
                /\ EnergyOf(constraints) = <<"l", "o", "w">>
                /\ IsSet(cal) /\ RLe(Val(cal), RInt(550))
                /\ IsSet(t) /\ Val(t) <= 30) =>
                   /\ RLt(RInt(0), ret.score)
                   /\ MentionsLighterOrQuick(ret.explanation)

\* the predictor raised on a call that reached it, and the heuristic rules
\* gave a non-zero score
C11_Witness ==
    /\ pc = "compute_mood_energy_score"
    /\ PredictorRaised
    /\ IsSet(get_macro(recipes[1], "calories"))
    /\ ret.debug.ml_error = predictor.error
    /\ ret.score = R(4, 10)
    /\ ret.explanation = "lighter on calories for low energy; quick prep for low energy"

\* C12: when neither a mood nor an energy level is requested (absent or
\* empty), compute_mood_energy_score returns 0.0 and 'Mood/energy neutral',
\* whatever the macros and whatever the predictor does.
C12_NoRequestNeutral ==
    (/\ pc = "compute_mood_energy_score"
     /\ ~TruthySeq(constraints.mood)
     /\ ~TruthySeq(constraints.energy_level)) =>
        /\ ret.score = RInt(0)
        /\ ret.explanation = "Mood/energy neutral"

\* nothing requested, and the predictor was reached and returned two results
C12_Witness ==
    /\ pc = "compute_mood_energy_score"
    /\ constraints.mood = None
    /\ constraints.energy_level = Some(<<>>)
    /\ ~predictor.raises
    /\ ret.debug.ml_used = TRUE
    /\ IsSet(ret.debug.ml_energy)
    /\ Val(ret.debug.ml_energy).label = <<"N", "o", "r", "m", "a", "l">>
    /\ ret.score = RInt(0)


----------------------------------------------------------------------------
(* score_recipes with soft scores that differ between recipes *)

\* recipes that differ in ingredients, macros and time
RankRecipes ==
    {MkRecipe(1, Some(1), None, Some(<< <<"C", "h", "i", "c", "k", "e", "n">> >>), BowlMacros),
     MkRecipe(1, None, None,
              Some(<< <<"t", "u", "n", "a">>, <<"p", "e", "a", "n", "u", "t">> >>),
              [NoMacros EXCEPT !.calories = Some(RInt(700)), !.protein_g = Some(RInt(10)),
                               !.nutrition_carbs_g = Some(RInt(20))]),
     MkRecipe(1, Some(2), Some(<<"V", "e", "g", "a", "n">>),
              Some(<< <<"B", "u", "t", "t", "e", "r">> >>), NoMacros),
     MkRecipe(1, Some(1), None, Some(<< <<"p", "e", "a", "n", "u", "t">> >>), BowlMacros)}

RankRecipeLists == {WithIds(l) : l \in SeqsBetween(RankRecipes, 1, MaxRecipes)}

RankConstraints ==
    {[NoConstraints EXCEPT !.nutrition_goal = g, !.mood = m, !.energy_level = e,
                           !.exclude_ingredients = exc] :
        g \in {None, Some("high_protein"), Some("low_carb")},
        m \in {None, Some(<<"C", "o", "m", "f", "o", "r", "t">>), Some(<<"l", "i", "g", "h", "t">>)},
        e \in {None, Some(<<"L", "O", "W">>), Some(<<"h", "i", "g", "h">>)},
        exc \in {None, Some(<< <<"T", "u", "n", "a">> >>)}}

\* pantries: empty, one with an urgent item, one with urgent and soon items
RankPantries ==
    {<<>>,
     FilterPantry,
     << MkItem(<<"c", "h", "i", "c", "k", "e", "n">>, "date", 10),
        MkItem(<<"T", "u", "n", "a">>, "date", 0),
        MkItem(<<"P", "e", "a", "n", "u", "t", " ", "B", "u", "t", "t", "e", "r">>, "iso", 3) >>}

\* predict_both raising, returning nothing, and returning two kinds of results
RankPredictions ==
    {[raises |-> TRUE, error |-> "model file not found"],
     [raises |-> FALSE, mood |-> None, energy |-> None],
     SomePrediction,
     [raises |-> FALSE,
      mood |-> Some([label |-> <<"S", "a", "d">>, confidence |-> R(1, 1)]),
      energy |-> Some([label |-> <<"E", "n", "e", "r", "g", "y", " ", "B", "u", "r", "s", "t">>,
                       confidence |-> R(3, 4)])]}

InitRank ==
    /\ recipes \in RankRecipeLists
    /\ pantry_items \in RankPantries
    /\ constraints \in RankConstraints
    /\ predictor \in RankPredictions
    /\ pc = "ready"
    /\ ret = <<>>

NextRank == ScoreRecipes

SpecRank == InitRank /\ [][NextRank]_vars

----------------------------------------------------------------------------
(* Properties of score_recipes: composite score, order, explanation *)

\* lo <= x <= hi
RBetween(lo, x, hi) == RLe(lo, x) /\ RLe(x, hi)

\* 0.30*coverage + 0.25*expiring + 0.20*nutrition + 0.25*mood_energy
WeightedSum(entry) ==
    RAdd(RAdd(RMul(R(30, 100), entry.coverage), RMul(R(25, 100), entry.expiring)),
         RAdd(RMul(R(20, 100), entry.nutrition), RMul(R(25, 100), entry.mood_energy)))

\* C13: every returned recipe has final score 0.30*coverage + 0.25*expiring
\* + 0.20*nutrition + 0.25*mood_energy with coverage and expiring in [0,1]
\* and nutrition and mood_energy in [-1,1], so the final score is in
\* [-0.45, 1.0]; debug.weights holds exactly these four constants, which sum
\* to 1.0.
C13_CompositeScore ==
    pc = "score_recipes" =>
        \A i \in DOMAIN ret :
            /\ ret[i].score = WeightedSum(ret[i])
            /\ RBetween(RInt(0), ret[i].coverage, RInt(1))
            /\ RBetween(RInt(0), ret[i].expiring, RInt(1))
            /\ RBetween(RInt(-1), ret[i].nutrition, RInt(1))
            /\ RBetween(RInt(-1), ret[i].mood_energy, RInt(1))
            /\ RBetween(R(-45, 100), ret[i].score, RInt(1))
            /\ ret[i].debug.weights =
                   [coverage |-> R(30, 100), expiring |-> R(25, 100),
                    nutrition |-> R(20, 100), mood_energy |-> R(25, 100)]
            /\ RSum(<<ret[i].debug.weights.coverage, ret[i].debug.weights.expiring,
                      ret[i].debug.weights.nutrition, ret[i].debug.weights.mood_energy>>)
                   = RInt(1)

\* a returned recipe with all four sub-scores non-zero, two of them negative
C13_Witness ==
    /\ pc = "score_recipes"
    /\ \E i \in DOMAIN ret :
        /\ RLt(RInt(0), ret[i].coverage)
        /\ RLt(RInt(0), ret[i].expiring)
        /\ RLt(ret[i].nutrition, RInt(0))
        /\ RLt(ret[i].mood_energy, RInt(0))
        /\ ret[i].score = WeightedSum(ret[i])


\* positions of the input recipes that pass every hard filter
PassingPositions == {k \in DOMAIN recipes : PassesHardFilters(recipes[k], constraints)}

\* C14: the returned list is ordered by final score, non-increasing; recipes
\* with equal final scores keep their relative input order; and the list is a
\* permutation of exactly the recipes that passed all hard filters.
C14_SortedStablePermutation ==
    pc = "score_recipes" =>
        /\ \A i, j \in DOMAIN ret :
               i < j => /\ RLe(ret[j].score, ret[i].score)
                        /\ (ret[i].score = ret[j].score
                               => ret[i].recipe_id < ret[j].recipe_id)
        /\ Len(ret) = Cardinality(PassingPositions)
        /\ {ret[i].recipe_id : i \in DOMAIN ret} = {recipes[k].id : k \in PassingPositions}
        /\ \A i \in DOMAIN ret : ret[i].recipe = recipes[ret[i].recipe_id]

\* the sort moved the second input recipe in front of the first
C14_Witness ==
    /\ pc = "score_recipes"
    /\ Len(ret) = 2
    /\ ret[1].recipe_id = 2
    /\ ret[2].recipe_id = 1
    /\ RLt(ret[2].score, ret[1].score)


----------------------------------------------------------------------------
(* score_recipes called repeatedly on the same arguments *)

MaxCalls == 2

RepeatConstraints ==
    {[NoConstraints EXCEPT !.nutrition_goal = Some("high_protein"), !.mood = m,
                           !.energy_level = e] :
        m \in {None, Some(<<"C", "o", "m", "f", "o", "r", "t">>)},
        e \in {None, Some(<<"L", "O", "W">>)}}

\* `ret` is the list of the results of the calls made so far
InitRepeat ==
    /\ recipes \in RankRecipeLists
    /\ pantry_items \in RankPantries
    /\ constraints \in RepeatConstraints
    /\ predictor \in RankPredictions
    /\ pc = "ready"
    /\ ret = <<>>

\* CallScoreRecipes leaving the pantry list emptied for the next call
CallScoreRecipes_Consumes ==
    /\ Len(ret) < MaxCalls
    /\ ret' = Append(ret, score_recipes(recipes, pantry_items, constraints, predictor))
    /\ pc' = "score_recipes"
    /\ pantry_items' = <<>>
    /\ UNCHANGED <<recipes, constraints, predictor>>

\* one more call score_recipes(recipes, pantry_items, constraints): the
\* function reads its arguments and writes only locals
CallScoreRecipes ==
    /\ Len(ret) < MaxCalls
    /\ ret' = Append(ret, score_recipes(recipes, pantry_items, constraints, predictor))
    /\ pc' = "score_recipes"
    /\ UNCHANGED <<recipes, pantry_items, constraints, predictor>>

NextRepeat == CallScoreRecipes

SpecRepeat == InitRepeat /\ [][NextRepeat]_vars

----------------------------------------------------------------------------
(* score_recipes on rows with a non-numeric macro value *)

\* a str where a number is expected
NonNumeric == <<"n", "/", "a">>

\* a recipe whose protein is not a number, one whose calories are not, and a
\* well-formed one
MalformedRecipes ==
    {MkRecipe(1, Some(1), None, Some(<< <<"C", "h", "i", "c", "k", "e", "n">> >>),
              [BowlMacros EXCEPT !.protein_g = Some(NonNumeric)]),
     MkRecipe(1, Some(1), None, Some(<< <<"t", "u", "n", "a">> >>),
              [BowlMacros EXCEPT !.calories = Some(NonNumeric)]),
     MkRecipe(1, Some(1), None, Some(<< <<"p", "e", "a", "n", "u", "t">> >>), BowlMacros)}

MalformedRecipeLists == {WithIds(l) : l \in SeqsBetween(MalformedRecipes, 1, MaxRecipes)}

MalformedConstraints ==
    {[NoConstraints EXCEPT !.nutrition_goal = g, !.mood = m, !.energy_level = e,
                           !.exclude_ingredients = exc] :
        g \in {None, Some("high_protein")},
        m \in {None, Some(<<"f", "o", "c", "u", "s">>)},
        e \in {None, Some(<<"L", "O", "W">>)},
        exc \in {None, Some(<< <<"c", "h", "i", "c", "k", "e", "n">> >>)}}

InitMalformed ==
    /\ recipes \in MalformedRecipeLists
    /\ pantry_items \in {<<>>, FilterPantry}
    /\ constraints \in MalformedConstraints
    /\ predictor \in RankPredictions
    /\ pc = "ready"
    /\ ret = <<>>

NextMalformed == ScoreRecipes

SpecMalformed == InitMalformed /\ [][NextMalformed]_vars

\* scoring recipe k raises
ScoringFails(k) ==
    \/ compute_nutrition_score_raises(recipes[k], constraints)
    \/ compute_mood_energy_score_raises(recipes[k], constraints, predictor)

\* C16: if scoring one recipe fails (a non-numeric macro value), no exception
\* escapes score_recipes and the remaining recipes are still filtered, scored
\* and returned in rank order.
C16_FailureIsolated ==
    pc # "ready" =>
        /\ pc = "score_recipes"
        /\ \A k \in DOMAIN recipes :
               (PassesHardFilters(recipes[k], constraints) /\ ~ScoringFails(k))
                   => \E i \in DOMAIN ret : ret[i].recipe_id = recipes[k].id
        /\ \A i, j \in DOMAIN ret : i < j => RLe(ret[j].score, ret[i].score)


\* the names of S, each once, in increasing order, joined with ", "
SortedNames(S) ==
    LET orders == {o \in SeqsBetween(S, Cardinality(S), Cardinality(S)) :
                      \A i, j \in DOMAIN o : i < j => StrLess(o[i], o[j])}
        o == CHOOSE o \in orders : TRUE
    IN  Join(", ", [i \in DOMAIN o |-> StrOf(o[i])])

\* the parts of the explanation of one result, in order
ExplanationParts(entry) ==
    (IF entry.coverage # RInt(0)
     THEN <<"Pantry coverage: "
            \o ToString((100 * entry.coverage[1]) \div entry.coverage[2]) \o "%">>
     ELSE <<>>)
    \o (IF entry.debug.expiring.matched # <<>>
        THEN <<"Uses expiring: " \o SortedNames(Range(entry.debug.expiring.matched))>>
        ELSE <<>>)
    \o (IF entry.debug.nutrition.explanation # ""
        THEN <<entry.debug.nutrition.explanation>> ELSE <<>>)
    \o (IF entry.debug.mood_energy.explanation # ""
        THEN <<entry.debug.mood_energy.explanation>> ELSE <<>>)

\* C17: every result has a non-empty explanation: the coverage percentage,
\* the deduplicated sorted names of the matched expiring pantry items, the
\* nutrition explanation and the mood/energy explanation, in this order, each
\* only when non-empty, joined with '; '.
C17_Explanation ==
    pc = "score_recipes" =>
        \A i \in DOMAIN ret :
            /\ ret[i].explanation # ""
            /\ ret[i].explanation = Join("; ", ExplanationParts(ret[i]))

\* a result with all four parts whose two expiring names were matched in the
\* order opposite to their sorted order
C17_Witness ==
    /\ pc = "score_recipes"
    /\ \E i \in DOMAIN ret :
        /\ ret[i].debug.expiring.matched =
               << <<"t", "u", "n", "a">>,
                  <<"p", "e", "a", "n", "u", "t", " ", "b", "u", "t", "t", "e", "r">> >>
        /\ ret[i].explanation =
               "Pantry coverage: 100%; Uses expiring: peanut butter, tuna; "
               \o "protein_g 10g is below 30g goal; comforting calories"


----------------------------------------------------------------------------
(* score_recipes on names written with surrounding spaces *)

\* one ingredient name written four ways, and an unrelated one
SpacedNames ==
    {<<"t", "u", "n", "a">>, <<" ", "T", "u", "n", "a">>, <<"t", "u", "n", "a", " ">>,
     <<"p", "e", "a", "n", "u", "t">>}

SpacedRecipes == {MkRecipe(1, None, None, Some(<<n>>), NoMacros) : n \in SpacedNames}

SpacedTerms ==
    {None, Some(<< <<" ", "t", "u", "n", "a">> >>), Some(<< <<"T", "U", "N", "A", " ">> >>)}

SpacedConstraints ==
    {[NoConstraints EXCEPT !.include_ingredients = inc, !.exclude_ingredients = exc] :
        inc \in SpacedTerms, exc \in SpacedTerms}

SpacedPantries ==
    {<<>>,
     << MkItem(<<" ", "t", "u", "n", "a">>, "date", 3) >>,
     << MkItem(<<"T", "u", "n", "a", " ">>, "date", 10) >>}

InitMatch ==
    /\ recipes \in {<<r>> : r \in SpacedRecipes}
    /\ pantry_items \in SpacedPantries
    /\ constraints \in SpacedConstraints
    /\ predictor = SomePrediction
    /\ pc = "ready"
    /\ ret = <<>>

NextMatch == ScoreRecipes

SpecMatch == InitMatch /\ [][NextMatch]_vars

\* s without its leading spaces
RECURSIVE TrimLeft(_)
TrimLeft(s) == IF s # <<>> /\ Head(s) = " " THEN TrimLeft(Tail(s)) ELSE s

\* s without its trailing spaces
RECURSIVE TrimRight(_)
TrimRight(s) ==
    IF s # <<>> /\ s[Len(s)] = " " THEN TrimRight(SubSeq(s, 1, Len(s) - 1)) ELSE s

\* matches(a, b): after lowercasing and trimming, one is a substring of the other
MatchesTrimmed(a, b) ==
    LET x == TrimLeft(TrimRight(Lower(a)))
        y == TrimLeft(TrimRight(Lower(b)))
    IN  StrIn(x, y) \/ StrIn(y, x)

\* C18: the include filter, the exclude filter, pantry coverage and expiry
\* matching all use matches(a, b): true iff, after lowercasing and trimming
\* surrounding whitespace, a is a substring of b or b of a; names that differ
\* only in case or in leading/trailing spaces match at each of the four sites.
C18_MatchesTrimmedEverywhere ==
    pc = "score_recipes" =>
        LET ings == IngredientsOf(recipes[1])
            included ==
                \A term \in EntriesOf(constraints.include_ingredients) :
                    \E i \in DOMAIN ings : MatchesTrimmed(term, ings[i])
            excluded ==
                \E term \in EntriesOf(constraints.exclude_ingredients) :
                    \E i \in DOMAIN ings : MatchesTrimmed(term, ings[i])
            inPantry(i) ==
                \E p \in DOMAIN pantry_items : MatchesTrimmed(ings[i], pantry_items[p].name)
            expiring(i) ==
                \E p \in DOMAIN pantry_items :
                    /\ IsSet(ExpiryWeight(pantry_items[p]))
                    /\ MatchesTrimmed(ings[i], pantry_items[p].name)
        IN  /\ InResult(1) <=> (included /\ ~excluded)
            /\ InResult(1) =>
                   /\ ret[1].debug.coverage.matched
                          = Cardinality({i \in DOMAIN ings : inPantry(i)})
                   /\ RLt(RInt(0), ret[1].expiring) <=> \E i \in DOMAIN ings : expiring(i)


----------------------------------------------------------------------------
(* Properties of compute_expiring_score: weights and accumulation *)

\* the item has a well-formed expiration date d days after today, lo <= d <= hi
ExpiresWithin(item, lo, hi) ==
    /\ item.expiration_date.kind \in {"date", "iso"}
    /\ lo <= item.expiration_date.days
    /\ item.expiration_date.days <= hi

\* the weight the windows give an item: 1.0, 0.5, or 0 for no weight
WindowWeight(item) ==
    IF ExpiresWithin(item, 0, 7) THEN R(1, 1)
    ELSE IF ExpiresWithin(item, 8, 14) THEN R(1, 2)
    ELSE RInt(0)

\* the pantry items that the windows give a weight
WeightedItems == SelectSeq(pantry_items, LAMBDA item : WindowWeight(item) # RInt(0))

\* C19: a pantry item expiring d days from today weighs 1.0 iff 0 <= d <= 7
\* and 0.5 iff 7 < d <= 14; an item that is expired, expires after 14 days,
\* has no date or has a malformed date gets no weight and contributes nothing
\* to the expiring score.
C19_ExpiryWeights ==
    pc = "compute_expiring_score" =>
        LET ings == IngredientsOf(recipes[1])
        IN  /\ (Len(pantry_items) = 1 /\ Len(ings) = 1
                    /\ Matches(ings[1], pantry_items[1].name))
                   => /\ ret.score = WindowWeight(pantry_items[1])
                      /\ ret.matched = IF WindowWeight(pantry_items[1]) = RInt(0) THEN <<>>
                                       ELSE <<Lower(pantry_items[1].name)>>
            /\ WeightedItems = <<>> => (ret.score = RInt(0) /\ ret.matched = <<>>)
            /\ ret = compute_expiring_score(recipes[1], WeightedItems)

\* one matching pantry item expiring in 8 days: weight 0.5
C19_Witness ==
    /\ pc = "compute_expiring_score"
    /\ Len(pantry_items) = 1
    /\ pantry_items[1].expiration_date = [kind |-> "date", days |-> 8]
    /\ Len(IngredientsOf(recipes[1])) = 1
    /\ ret.score = R(1, 2)
    /\ ret.matched = <<Lower(pantry_items[1].name)>>


\* position of the first pantry item, in list order, whose name matches ing;
\* 0 when there is none
FirstPantryMatch(ing) ==
    IF \E p \in DOMAIN pantry_items : Matches(ing, pantry_items[p].name)
    THEN CHOOSE p \in DOMAIN pantry_items :
             /\ Matches(ing, pantry_items[p].name)
             /\ \A q \in 1..(p - 1) : ~Matches(ing, pantry_items[q].name)
    ELSE 0

\* what the ingredient adds: the weight of its first matching pantry item
FirstMatchWeight(ing) ==
    IF FirstPantryMatch(ing) = 0 THEN RInt(0)
    ELSE WindowWeight(pantry_items[FirstPantryMatch(ing)])

\* the names recorded for the first n ingredients
RECURSIVE FirstMatchNames(_, _)
FirstMatchNames(ings, n) ==
    IF n = 0 THEN <<>>
    ELSE FirstMatchNames(ings, n - 1)
         \o (IF FirstMatchWeight(ings[n]) = RInt(0) THEN <<>>
             ELSE <<Lower(pantry_items[FirstPantryMatch(ings[n])].name)>>)

\* C20: each recipe ingredient, in recipe order, takes the first pantry item
\* (in pantry list order) whose name matches it; if that item is weighted its
\* own weight is added and its name recorded, otherwise the ingredient adds
\* nothing; the score is the sum divided by the number of ingredients, capped
\* at 1.0, also when several pantry items match or share a name.
C20_FirstMatchAccumulation ==
    (pc = "compute_expiring_score" /\ IngredientsOf(recipes[1]) # <<>>) =>
        LET ings == IngredientsOf(recipes[1])
            total == RSum([i \in DOMAIN ings |-> FirstMatchWeight(ings[i])])
        IN  /\ ret.score = RMin(RInt(1), RDivInt(total, Len(ings)))
            /\ ret.matched = FirstMatchNames(ings, Len(ings))


----------------------------------------------------------------------------
(* Properties of score_recipes: the order of the hard filters *)

\* every order in which the five stages can be applied: order[n] is the
\* stage applied n-th (1 ingredient presence, 2 time, 3 diet, 4 include,
\* 5 exclude)
StageOrders == Permutations(1..5)

\* what each of the five stages decides for the recipe on its own
StageVerdicts(recipe, c) ==
    <<HasIngredients(recipe), PassesTimeFilter(recipe, c), PassesDietFilter(recipe, c),
      PassesIncludeFilter(recipe, c), PassesExcludeFilter(recipe, c)>>

RECURSIVE SurvivorsInOrder(_, _, _)
\* the positions left after the first n stages of the order, each stage
\* removing the recipes it rejects from what the stages before it left
SurvivorsInOrder(order, verdicts, n) ==
    IF n = 0 THEN [i \in DOMAIN verdicts |-> i]
    ELSE SelectSeq(SurvivorsInOrder(order, verdicts, n - 1),
                   LAMBDA i : verdicts[i][order[n]])

\* the ids of the recipes returned by score_recipes
ReturnedIds(scored) == {scored[i].recipe_id : i \in DOMAIN scored}

\* C21: the recipes that survive the hard filters are the same for every
\* order of the five stages (ingredient presence, time, diet, include,
\* exclude): they are the recipes that satisfy all five predicates, and a
\* recipe survives or not independently of the other recipes of the list and
\* of the pantry.
C21_FilterOrderIndependent ==
    pc = "score_recipes" =>
        /\ \E verdicts \in {[i \in DOMAIN recipes |-> StageVerdicts(recipes[i], constraints)]} :
               \A order \in StageOrders :
                   ReturnedIds(ret) =
                       {recipes[i].id : i \in Range(SurvivorsInOrder(order, verdicts, 5))}
        /\ \A k \in DOMAIN recipes :
               InResult(k) <=>
                   score_recipes(<<recipes[k]>>, <<>>, constraints, predictor) # <<>>

\* of two recipes one was removed by two stages at once (include and
\* exclude) and the other one survived
C21_Witness ==
    /\ pc = "score_recipes"
    /\ Len(recipes) = 2
    /\ Len(ret) = 1
    /\ \E k \in DOMAIN recipes :
           /\ ~InResult(k)
           /\ ~PassesIncludeFilter(recipes[k], constraints)
           /\ ~PassesExcludeFilter(recipes[k], constraints)


----------------------------------------------------------------------------
(* Properties of compute_mood_energy_score: the call of the predictor *)

\* the macros the predictor accepts
PredictorMacros == {"calories", "protein_g", "carbs_g", "fat_g", "sugar_g"}

\* the macros of PredictorMacros that are non-null on the recipe, in the base
\* field or in the nutrition_* field
PresentMacros(recipe) ==
    {k \in PredictorMacros : IsSet(recipe[k]) \/ IsSet(recipe["nutrition_" \o k])}

\* the recipe's own value of a present macro: the base field when it is set
OwnValue(recipe, k) ==
    IF IsSet(recipe[k]) THEN Val(recipe[k]) ELSE Val(recipe["nutrition_" \o k])

\* C22: compute_mood_energy_score calls the predictor iff the recipe's
\* calories value is present, and once; the nutrition mapping it passes has
\* as keys exactly the macros among calories, protein_g, carbs_g, fat_g and
\* sugar_g that are non-null on the recipe, each with the recipe's own value.
C22_PredictorCall ==
    pc = "compute_mood_energy_score" =>
        /\ predictor.calls # <<>> <=> "calories" \in PresentMacros(recipes[1])
        /\ Len(predictor.calls) <= 1
        /\ \A n \in DOMAIN predictor.calls :
               LET nutrition_data == predictor.calls[n]
               IN  /\ {nutrition_data[i][1] : i \in DOMAIN nutrition_data}
                          = PresentMacros(recipes[1])
                   /\ Cardinality(PresentMacros(recipes[1])) = Len(nutrition_data)
                   /\ \A i \in DOMAIN nutrition_data :
                          nutrition_data[i][2] = OwnValue(recipes[1], nutrition_data[i][1])

\* the predictor was called with calories taken from nutrition_calories and
\* with sugar_g, and with nothing for the three macros the recipe lacks
C22_Witness ==
    /\ pc = "compute_mood_energy_score"
    /\ IsNone(recipes[1].calories)
    /\ predictor.calls = << << <<"calories", RInt(450)>>, <<"sugar_g", RInt(9)>> >> >>


\* C23: the ML-derived contribution enters the score only when the predictor
\* returned both a mood result and an energy result: when either result is
\* null, the score is the score of the heuristic rules alone, whatever mood
\* and energy level are requested.
C23_MLNeedsBothResults ==
    (/\ pc = "compute_mood_energy_score"
     /\ ~predictor.raises
     /\ (IsNone(predictor.mood) \/ IsNone(predictor.energy))) =>
        ret.score = R(HeuristicPoints(recipes[1], constraints), 10)


\* the heuristic fallback ran: calories missing, the predictor raised or
\* returned a null result that was read, or the ML terms summed to 0.0
HeuristicFallbackRan ==
    FallbackRuns(get_macro(recipes[1], "calories"),
                 MLBlock(MoodOf(constraints), EnergyOf(constraints), predictor))

\* C24: debug.ml_used is TRUE exactly when the ML-derived score was non-zero
\* and became the final score; whenever the heuristic fallback ran (calories
\* missing, predictor failed or returned null, or an ML score of exactly 0.0)
\* debug.ml_used is FALSE.
C24_MLUsedFlag ==
    pc = "compute_mood_energy_score" =>
        (ret.debug.ml_used <=> ~HeuristicFallbackRan)


----------------------------------------------------------------------------
(* Properties of compute_mood_energy_score: the two scoring tables *)

\* predict_both returned a mood result and an energy result
PredictorResults ==
    IF predictor.raises THEN FALSE
    ELSE IsSet(predictor.mood) /\ IsSet(predictor.energy)

\* the mood term of the ML table for a requested mood, a predicted label and
\* its confidence
MLTableMood(m, label, conf) ==
    IF m = <<>> THEN RInt(0)
    ELSE IF m \in ComfortMoodsML
    THEN (IF label = happy THEN RMul(R(5, 10), conf)
          ELSE IF label = sad THEN RMul(R(-3, 10), conf) ELSE RInt(0))
    ELSE IF m \in LightMoods
    THEN (IF label \in {neutral, happy} THEN RMul(R(3, 10), conf) ELSE RInt(0))
    ELSE (IF label = neutral THEN RMul(R(2, 10), conf) ELSE RInt(0))

\* the energy term of the ML table for a requested energy level, a predicted
\* label and its confidence
MLTableEnergy(e, label, conf) ==
    IF e = <<>> THEN RInt(0)
    ELSE IF e = low
    THEN (IF StrIn(low, label) \/ StrIn(normal, label) THEN RMul(R(4, 10), conf)
          ELSE RMul(R(-2, 10), conf))
    ELSE IF e = high
    THEN (IF StrIn(burst, label) \/ StrIn(energy_word, label) THEN RMul(R(5, 10), conf)
          ELSE IF StrIn(normal, label) THEN RMul(R(2, 10), conf) ELSE RInt(0))
    ELSE (IF StrIn(normal, label) THEN RMul(R(3, 10), conf) ELSE RInt(0))

\* the sum of the applicable terms of the ML table
MLTableSum ==
    RAdd(MLTableMood(MoodOf(constraints), Lower(Val(predictor.mood).label),
                     Val(predictor.mood).confidence),
         MLTableEnergy(EnergyOf(constraints), Lower(Val(predictor.energy).label),
                       Val(predictor.energy).confidence))

\* C25: when the predictor is called and returns both results, the ML score
\* is the sum of the applicable terms of the ML table (mood: comfort-like
\* +0.5*conf happy / -0.3*conf sad, light-like +0.3*conf neutral or happy,
\* other +0.2*conf neutral; energy: low +0.4*conf low or normal else
\* -0.2*conf, high +0.5*conf burst or energy else +0.2*conf normal, other
\* +0.3*conf normal), and whenever the sum is non-zero the returned score is
\* the sum clamped to [-1, 1], with nothing added by the heuristic rules.
C25_MLTable ==
    (/\ pc = "compute_mood_energy_score"
     /\ IsSet(get_macro(recipes[1], "calories"))
     /\ PredictorResults
     /\ ~REq(MLTableSum, RInt(0))) =>
        /\ ret.score = RMax(RInt(-1), RMin(RInt(1), MLTableSum))
        /\ ret.debug.ml_used

\* comfort requested with a 'Sad' prediction (-0.3 * 1.0) and high energy
\* with an 'Energy Burst' prediction (+0.5 * 0.75), on a recipe to which the
\* heuristic rules would give +0.3 for its 650 calories
C25_Witness ==
    /\ pc = "compute_mood_energy_score"
    /\ PredictorResults
    /\ MoodOf(constraints) = <<"c", "o", "m", "f", "o", "r", "t">>
    /\ EnergyOf(constraints) = high
    /\ Lower(Val(predictor.mood).label) = sad
    /\ StrIn(burst, Lower(Val(predictor.energy).label))
    /\ recipes[1].calories = Some(RInt(650))
    /\ ret.score = R(3, 40)


\* the predictor is unavailable: it is not called, raises, or returns no result
PredictorUnavailable ==
    \/ IsNone(get_macro(recipes[1], "calories"))
    \/ PredictorRaised
    \/ PredictorNull

\* the heuristic table, in tenths of a point; the quick-prep rule applies to
\* every present time value
HeuristicTablePoints(recipe, c) ==
    LET m == MoodOf(c)
        e == EnergyOf(c)
        cal == get_macro(recipe, "calories")
        fat == get_macro(recipe, "fat_g")
        pro == get_macro(recipe, "protein_g")
        t == recipe.time_minutes
        atMost(v, n) == IsSet(v) /\ RLe(Val(v), RInt(n))
        atLeast(v, n) == IsSet(v) /\ RLe(RInt(n), Val(v))
        energyPoints ==
            IF e = low
            THEN (IF atMost(cal, 550) THEN 3 ELSE 0)
                 + (IF IsSet(t) /\ Val(t) <= 30 THEN 1 ELSE 0)
            ELSE IF e = high
            THEN (IF atLeast(pro, 25) THEN 3 ELSE IF atLeast(pro, 15) THEN 1 ELSE 0)
            ELSE 0
        moodPoints ==
            IF m \in ComfortMoods THEN (IF atLeast(cal, 650) THEN 3 ELSE -1)
            ELSE IF m \in LightMoods
            THEN (IF atMost(cal, 550) /\ (IsNone(fat) \/ atMost(fat, 20)) THEN 3 ELSE -1)
            ELSE IF m \in FocusMoods THEN (IF atLeast(pro, 25) THEN 3 ELSE -1)
            ELSE 0
    IN  energyPoints + moodPoints

\* C26: with the predictor unavailable the score is the sum of the heuristic
\* rules, clamped to [-1, 1]: energy 'low' +0.3 if calories <= 550 and +0.1
\* if time_minutes <= 30 for every present time value, 0 included; energy
\* 'high' +0.3 if protein_g >= 25 else +0.1 if protein_g >= 15; comfort-like
\* mood +0.3 if calories >= 650 else -0.1; light-like mood +0.3 if calories
\* <= 550 and fat_g null or <= 20 else -0.1; focus-like mood +0.3 if
\* protein_g >= 25 else -0.1.
C26_HeuristicTable ==
    (pc = "compute_mood_energy_score" /\ PredictorUnavailable) =>
        ret.score = RMax(RInt(-1), RMin(RInt(1),
                         R(HeuristicTablePoints(recipes[1], constraints), 10)))


\* the macro the heuristic mood rule tests is missing on the recipe
MoodRuleMacroMissing ==
    LET m == MoodOf(constraints)
    IN  \/ m \in ComfortMoods \cup LightMoods /\ IsNone(get_macro(recipes[1], "calories"))
        \/ m \in FocusMoods /\ IsNone(get_macro(recipes[1], "protein_g"))

\* the score and the reasons of the rules for the requested energy level alone
EnergyRulesAlone ==
    HeuristicEnergy(EnergyOf(constraints), get_macro(recipes[1], "calories"),
                    get_macro(recipes[1], "protein_g"), recipes[1].time_minutes)

\* C27: in the heuristic path a mood rule does not fire when the macro it
\* tests is missing (calories for comfort-like and light-like moods,
\* protein_g for focus-like moods): it contributes 0 to the score and adds
\* no reason, so the score and the explanation are those of the energy rules.
C27_MissingMacroNoMoodRule ==
    (/\ pc = "compute_mood_energy_score"
     /\ PredictorUnavailable
     /\ MoodRuleMacroMissing) =>
        /\ ret.score = EnergyRulesAlone.delta
        /\ ret.explanation = IF EnergyRulesAlone.reasons = <<>> THEN "Mood/energy neutral"
                             ELSE Join("; ", EnergyRulesAlone.reasons)


----------------------------------------------------------------------------
(* Properties of compute_mood_energy_score: the explanation *)

\* the score and the reasons of the rule for the requested mood alone
MoodRuleAlone ==
    HeuristicMood(MoodOf(constraints), get_macro(recipes[1], "calories"),
                  get_macro(recipes[1], "fat_g"), get_macro(recipes[1], "protein_g"))

\* the explanation made of the given reasons
ExplanationOf(reasons) ==
    IF reasons = <<>> THEN "Mood/energy neutral" ELSE Join("; ", reasons)

\* C30: every reason of the explanation belongs to a term of the returned
\* score: when the heuristic fallback ran (the predictor failed or returned a
\* null result after a rule had matched, or the ML terms summed to 0.0) the
\* explanation has no 'ML predicts ...' reason, being made of the reasons of
\* the heuristic rules that fired, and when the score is ML-derived the
\* explanation is made of the reasons of the ML terms and has no heuristic
\* reason.
C30_ReasonsMatchScore ==
    pc = "compute_mood_energy_score" =>
        IF HeuristicFallbackRan
        THEN ret.explanation = ExplanationOf(EnergyRulesAlone.reasons \o MoodRuleAlone.reasons)
        ELSE ret.explanation =
                 ExplanationOf(MLBlock(MoodOf(constraints), EnergyOf(constraints),
                                       predictor).reasons)


----------------------------------------------------------------------------
(* recommend_recipes_mvp and the two handlers that call it *)

\* _normalize_name(name): name.strip().lower()
normalize_name(name) == Lower(TrimLeft(TrimRight(name)))

\* {_normalize_name(x) for x in names}, or, with skip_empty, {... if x}
NormalizedSet(names, skip_empty) ==
    {normalize_name(names[i]) : i \in {j \in DOMAIN names : ~skip_empty \/ names[j] # <<>>}}

\* the payload dict the handlers build from a Recipe row
RecipePayload(r) ==
    [id |-> r.id, title |-> r.title,
     ingredients |-> IF TruthySeq(r.ingredients) THEN Val(r.ingredients) ELSE <<>>,
     time_minutes |-> r.time_minutes, diet |-> r.diet, cuisine |-> r.cuisine,
     avg_rating |-> r.avg_rating]

\* _ensure_ingredient_list(raw_ingredients) for a list: its non-empty entries
ensure_ingredient_list(raw_ingredients) == SelectSeq(raw_ingredients, LAMBDA i : i # <<>>)

\* _compute_pantry_coverage(recipe_ingredients, pantry_item_names)
compute_pantry_coverage(recipe_ingredients, pantry_item_names) ==
    LET ing_set == NormalizedSet(recipe_ingredients, TRUE)
        pantry_set == NormalizedSet(pantry_item_names, FALSE)
    IN  IF ing_set = {} THEN RInt(0)
        ELSE IF pantry_set = {} THEN RInt(0)
        ELSE R(Cardinality(ing_set \cap pantry_set), Cardinality(ing_set))

\* _compute_missing_ingredients(recipe_ingredients, pantry_item_names)
compute_missing_ingredients(recipe_ingredients, pantry_item_names) ==
    SelectSeq(recipe_ingredients,
              LAMBDA ing : ing # <<>>
                           /\ normalize_name(ing) \notin NormalizedSet(pantry_item_names, FALSE))

\* the recipe passes the filters of step 2 (the payloads always carry a title
\* and an ingredient list, so the incomplete-data skip is never taken)
IsCandidate(recipe, c, exclude_names) ==
    LET ing_set == NormalizedSet(ensure_ingredient_list(recipe.ingredients), TRUE)
    IN  /\ TruthySeq(c.cuisine) =>
               /\ IsSet(recipe.cuisine)
               /\ normalize_name(Val(recipe.cuisine)) \in NormalizedSet(Val(c.cuisine), FALSE)
        /\ TruthySeq(c.include_ingredients) =>
               NormalizedSet(Val(c.include_ingredients), FALSE) \subseteq ing_set
        /\ ~ (exclude_names # <<>> /\ NormalizedSet(exclude_names, FALSE) \cap ing_set # {})
        /\ ~ (/\ IsSet(c.max_time_minutes)
              /\ IsSet(recipe.time_minutes)
              /\ Val(recipe.time_minutes) > Val(c.max_time_minutes))
        /\ TruthySeq(c.diet_types) =>
               /\ IsSet(recipe.diet)
               /\ normalize_name(Val(recipe.diet)) \in NormalizedSet(Val(c.diet_types), TRUE)

\* steps 1 and 2: the candidates, in the order of the recipes
Candidates(rs, c, user_profile) ==
    LET exclude_names ==
            (IF TruthySeq(c.exclude_ingredients) THEN Val(c.exclude_ingredients) ELSE <<>>)
            \o (IF IsSet(user_profile) THEN Val(user_profile).allergies ELSE <<>>)
    IN  SelectSeq(rs, LAMBDA recipe : IsCandidate(recipe, c, exclude_names))

\* step 3: raw_score of a candidate, with the two placeholder terms
RawScore(cand, pantry_item_names) ==
    RAdd(RAdd(RMul(R(6, 10),
                   compute_pantry_coverage(ensure_ingredient_list(cand.ingredients),
                                           pantry_item_names)),
              RMul(R(4, 10), R(1, 2))),
         RMul(RInt(0), RInt(0)))

\* step 4: the candidates with their final_score, raw_score normalized to
\* [-1, 1] over the candidates
ScoredCandidates(candidates, pantry_item_names) ==
    LET raw_scores == [i \in DOMAIN candidates |-> RawScore(candidates[i], pantry_item_names)]
        min_raw == CHOOSE x \in Range(raw_scores) : \A y \in Range(raw_scores) : RLe(x, y)
        max_raw == CHOOSE x \in Range(raw_scores) : \A y \in Range(raw_scores) : RLe(y, x)
    IN  [i \in DOMAIN candidates |->
            [final_score |->
                IF REq(max_raw, min_raw) THEN RInt(0)
                ELSE LET num == RMul(RInt(2), RAdd(raw_scores[i], RMul(RInt(-1), min_raw)))
                         den == RAdd(max_raw, RMul(RInt(-1), min_raw))
                     IN  RAdd(R(num[1] * den[2], num[2] * den[1]), RInt(-1))]
            @@ candidates[i]]

\* s[:k]
SliceTo(s, k) ==
    IF k >= 0 THEN SubSeq(s, 1, IF k < Len(s) THEN k ELSE Len(s))
    ELSE SubSeq(s, 1, IF Len(s) + k > 0 THEN Len(s) + k ELSE 0)

\* step 5: the result dicts of candidates[:top_k]
ResultsOf(scored, pantry_item_names, top_k) ==
    LET kept == SliceTo(scored, top_k)
    IN  [i \in DOMAIN kept |->
            [id |-> kept[i].id, title |-> kept[i].title,
             time_minutes |-> kept[i].time_minutes, diet |-> kept[i].diet,
             missing_ingredients |->
                 compute_missing_ingredients(ensure_ingredient_list(kept[i].ingredients),
                                             pantry_item_names),
             cuisine |-> kept[i].cuisine, avg_rating |-> kept[i].avg_rating]]

\* recommend_recipes_mvp(recipes, pantry_item_names, constraints, user_profile, top_k)
recommend_recipes_mvp(rs, pantry_item_names, c, user_profile, top_k) ==
    IF Candidates(rs, c, user_profile) = <<>> THEN <<>>
    ELSE ResultsOf(ScoredCandidates(Candidates(rs, c, user_profile), pantry_item_names),
                   pantry_item_names, top_k)

\* UserConstraints(): every field None
DefaultConstraints == [cuisine |-> None] @@ NoConstraints

\* the recipe payloads and the pantry names the handlers load
RecipePayloads == [i \in DOMAIN recipes |-> RecipePayload(recipes[i])]

ItemNames == [i \in DOMAIN pantry_items |-> pantry_items[i].name]

MaxLimit == 2

\* POST /chat/what_can_i_make with payload.limit = limit
WhatCanIMake(limit) ==
    /\ pc = "ready"
    /\ ret' = [limit |-> limit,
               response |->
                   LET recs == recommend_recipes_mvp(RecipePayloads, ItemNames,
                                                     DefaultConstraints,
                                                     Some([allergies |-> <<>>]), limit)
                   IN  [i \in DOMAIN recs |->
                           [recipe_id |-> recs[i].id, title |-> recs[i].title,
                            score |-> RInt(0),
                            missing_ingredients |-> recs[i].missing_ingredients]]]
    /\ pc' = "what_can_i_make"
    /\ UNCHANGED <<recipes, pantry_items, constraints, predictor>>

\* POST /recommend with the constraints of the request body
RecommendRecipesEndpoint ==
    /\ pc = "ready"
    /\ ret' = [response |->
                   recommend_recipes_mvp(RecipePayloads, ItemNames, constraints,
                                         Some([allergies |-> <<>>]), 5)]
    /\ pc' = "recommend_recipes_endpoint"
    /\ UNCHANGED <<recipes, pantry_items, constraints, predictor>>

\* recipes with different shares of their ingredients in the pantry
RecommendRecipes ==
    {[cuisine |-> cu, avg_rating |-> None] @@ MkRecipe(1, t, d, Some(ings), NoMacros) :
        cu \in {None, Some(<<"T", "h", "a", "i">>)},
        t \in {Some(MaxTime)},
        d \in DietTags,
        ings \in {<< <<"m", "i", "l", "k">> >>,
                  << <<"R", "i", "c", "e", " ">>, <<"m", "i", "l", "k">> >>,
                  << <<"r", "i", "c", "e">>, <<"T", "u", "n", "a">> >>}}

RecommendConstraints ==
    {[DefaultConstraints EXCEPT !.cuisine = cu, !.max_time_minutes = t, !.diet_types = d,
                                !.include_ingredients = inc, !.exclude_ingredients = exc] :
        cu \in {None, Some(<< <<" ", "t", "h", "a", "i">> >>)},
        t \in {None, Some(1)},
        d \in {None, Some(<< <<"v", "e", "g", "a", "n">> >>)},
        inc \in {None, Some(<< <<"M", "i", "l", "k">> >>)},
        exc \in {None, Some(<< <<"t", "u", "n", "a">> >>)}}

RecommendPantries ==
    {<<>>,
     << MkItem(<<"r", "i", "c", "e">>, "none", 0) >>,
     << MkItem(<<"R", "i", "c", "e">>, "none", 0), MkItem(<<" ", "t", "u", "n", "a">>, "date", 3) >>}

InitRecommend ==
    /\ recipes \in {WithIds(l) : l \in SeqsBetween(RecommendRecipes, 1, MaxRecipes)}
    /\ pantry_items \in RecommendPantries
    /\ constraints \in RecommendConstraints
    /\ predictor = SomePrediction
    /\ pc = "ready"
    /\ ret = <<>>

NextRecommend ==
    \/ \E limit \in 0..MaxLimit : WhatCanIMake(limit)
    \/ RecommendRecipesEndpoint

SpecRecommend == InitRecommend /\ [][NextRecommend]_vars

----------------------------------------------------------------------------
(* Properties of recommend_recipes_mvp *)

\* the candidates of a what_can_i_make call, with their final scores
ScoredCandidatesOfCall ==
    ScoredCandidates(Candidates(RecipePayloads, DefaultConstraints, Some([allergies |-> <<>>])),
                     ItemNames)

\* the final_score of the candidate with the given id
FinalScoreOf(id) ==
    LET scored == ScoredCandidatesOfCall
    IN  scored[CHOOSE i \in DOMAIN scored : scored[i].id = id].final_score

\* C28: recommend_recipes_mvp returns at most top_k results, and they are the
\* top_k candidates by final_score in descending order: no candidate left out
\* has a strictly higher final_score than a returned one.
C28_TopKByFinalScore ==
    pc = "what_can_i_make" =>
        LET returned == {ret.response[i].recipe_id : i \in DOMAIN ret.response}
            scored == ScoredCandidatesOfCall
        IN  /\ Len(ret.response) <= ret.limit
            /\ \A i, j \in DOMAIN ret.response :
                   i < j => RLe(FinalScoreOf(ret.response[j].recipe_id),
                                FinalScoreOf(ret.response[i].recipe_id))
            /\ \A i, j \in DOMAIN scored :
                   (scored[i].id \in returned /\ scored[j].id \notin returned) =>
                       ~RLt(scored[i].final_score, scored[j].final_score)


----------------------------------------------------------------------------
(* consume_item and restock_item *)

MaxQuantity == 3

\* max(a, b) on integers
Max(a, b) == IF a >= b THEN a ELSE b

\* item.quantity or 0
QuantityOrZero(item) == IF TruthyInt(item.quantity) THEN Val(item.quantity) ELSE 0

\* consume_item subtracting the amount as given
ConsumedQuantity_Unclamped(item, amount) == Max(0, QuantityOrZero(item) - amount)

\* the quantity consume_item stores: amt = max(0, int(payload.amount or 0));
\* max(0, (item.quantity or 0) - amt)
ConsumedQuantity(item, amount) == Max(0, QuantityOrZero(item) - Max(0, amount))

\* the quantity restock_item stores: (item.quantity or 0) + amt
RestockedQuantity(item, amount) == QuantityOrZero(item) + Max(0, amount)

\* POST /items/{item_id}/consume with payload.amount = amount; ret keeps the
\* request beside the response
consume_item(item_id, amount) ==
    /\ pc \in {"ready", "consume_item", "restock_item"}
    /\ IF item_id \in DOMAIN pantry_items
       THEN /\ pantry_items' =
                   [pantry_items EXCEPT ![item_id].quantity =
                       Some(ConsumedQuantity(pantry_items[item_id], amount))]
            /\ ret' = [item_id |-> item_id, amount |-> amount,
                       response |-> pantry_items'[item_id]]
       ELSE /\ ret' = [item_id |-> item_id, amount |-> amount,
                       response |-> [detail |-> "Not found"]]
            /\ UNCHANGED pantry_items
    /\ pc' = "consume_item"
    /\ UNCHANGED <<recipes, constraints, predictor>>

\* POST /items/{item_id}/restock with payload.amount = amount (the stock is
\* kept within MaxQuantity)
restock_item(item_id, amount) ==
    /\ pc \in {"ready", "consume_item", "restock_item"}
    /\ IF item_id \in DOMAIN pantry_items
       THEN /\ RestockedQuantity(pantry_items[item_id], amount) <= MaxQuantity
            /\ pantry_items' =
                   [pantry_items EXCEPT ![item_id].quantity =
                       Some(RestockedQuantity(pantry_items[item_id], amount))]
            /\ ret' = [item_id |-> item_id, amount |-> amount,
                       response |-> pantry_items'[item_id]]
       ELSE /\ ret' = [item_id |-> item_id, amount |-> amount,
                       response |-> [detail |-> "Not found"]]
            /\ UNCHANGED pantry_items
    /\ pc' = "restock_item"
    /\ UNCHANGED <<recipes, constraints, predictor>>

\* amounts of a request: negative, zero, within the stock and beyond it
Amounts == {-2, 0, 1, 2, MaxQuantity + 1}

\* Item rows with a quantity that is null or >= 0
StockedItems ==
    {[quantity |-> q] @@ MkItem(<<"r", "i", "c", "e">>, "none", 0) : q \in Opt(0..1)}

InitPantry ==
    /\ recipes = <<>>
    /\ pantry_items \in SeqsBetween(StockedItems, MaxPantry, MaxPantry)
    /\ constraints = NoConstraints
    /\ predictor = SomePrediction
    /\ pc = "ready"
    /\ ret = <<>>

NextPantry ==
    \E item_id \in 1..(MaxPantry + 1), amount \in Amounts :
        \/ consume_item(item_id, amount)
        \/ restock_item(item_id, amount)

SpecPantry == InitPantry /\ [][NextPantry]_vars

----------------------------------------------------------------------------
(* Properties of consume_item and restock_item *)

\* the numeric quantity of an item, null counting as 0
StockOf(item) == IF IsSet(item.quantity) THEN Val(item.quantity) ELSE 0

\* min(a, b) on integers
Min(a, b) == IF a <= b THEN a ELSE b

\* the step is a consume or restock call on an existing item and changes its
\* stock as the amount says; the other items keep theirs
StockStep ==
    (ret'.item_id \in DOMAIN pantry_items) =>
        LET stock == StockOf(pantry_items[ret'.item_id])
            after == StockOf(pantry_items'[ret'.item_id])
        IN  /\ after = IF ret'.amount < 0 THEN stock
                       ELSE IF pc' = "consume_item" THEN stock - Min(ret'.amount, stock)
                       ELSE stock + ret'.amount
            /\ ret'.response.quantity = Some(after)
            /\ \A i \in DOMAIN pantry_items :
                   i # ret'.item_id => pantry_items'[i] = pantry_items[i]

\* C29: starting from items whose quantity is >= 0 or null, after any sequence
\* of consume and restock calls with any integer amounts (negative ones and
\* amounts beyond the stock included) every stored quantity is >= 0; consume
\* lowers the quantity by min(amount, quantity), restock raises it by amount,
\* and a negative amount leaves it unchanged in both (a null quantity counts
\* as 0).
C29_QuantityNeverNegative ==
    /\ [](\A i \in DOMAIN pantry_items : StockOf(pantry_items[i]) >= 0)
    /\ [][StockStep]_vars

\* the first item was consumed with an amount beyond any stock and holds 0,
\* while the second item has been restocked to the full stock
C29_Witness ==
    /\ pc = "consume_item"
    /\ ret.amount = MaxQuantity + 1
    /\ ret.item_id = 1
    /\ pantry_items[1].quantity = Some(0)
    /\ pantry_items[2].quantity = Some(MaxQuantity)

====
